---- MODULE Spec2Model ----
(***************************************************************************)
(* A model of the Quoridor rules engine of LACI-QD: the Board class        *)
(* (src/src/board.py) and the Game wrapper (src/src/game.py), together     *)
(* with the play loop of Arena.play_game (src/src/arena.py).               *)
(* The second part models the tree search of src/src/mcts.py, driven by    *)
(* the self-play episode of src/src/coach.py.                              *)
(*                                                                         *)
(* A cell or a wall anchor is a pair <<row, col>>.  A board is a record    *)
(* with the fields of the Board object.  A wall of get_legal_walls is a    *)
(* triple <<row, col, type>> with type "h" or "v".                         *)
(***************************************************************************)
EXTENDS Integers, FiniteSets, Sequences, TLC

VARIABLES board, cur_player, it,
          q_sa, n_sa, n_s, p_s, e_s, v_s,
          numMCTSSims, pi_v_function,
          stack, ret, pc, root, sims_run, temp, probs, tally

\* The fields of an MCTS object and the position of its calls.
engine == <<q_sa, n_sa, n_s, p_s, e_s, v_s, numMCTSSims, pi_v_function,
            stack, ret, pc, root, sims_run, temp, probs, tally>>

vars == <<board, cur_player, it, engine>>

(***************************************************************************)
(* Sizes.                                                                  *)
(***************************************************************************)
\* The board size n handed to Game(n) and Board(n).
N == 3

\* The largest number of placed walls on a board drawn by InitAny.
MaxWallsAny == 3

\* Game.__init__: self.max_turn = n * n * 2
max_turn == N * N * 2

\* Game.__init__: self.winning_criteria = 0.8, kept as the fraction 4/5
CritNum == 4
CritDen == 5

\* Board.__init__: n * n // 8, the wall budget of each player
InitWalls == (N * N) \div 8

\* Game.get_action_size
get_action_size == N * N + (N - 1) * (N - 1) * 2

Cells == (0 .. N - 1) \X (0 .. N - 1)
Anchors == (0 .. N - 2) \X (0 .. N - 2)
Actions == 0 .. get_action_size - 1

Min(a, b) == IF a < b THEN a ELSE b

(***************************************************************************)
(* Board (src/src/board.py)                                                *)
(***************************************************************************)
\* Board.__init__
NewBoard ==
  [my_pos |-> <<0, N \div 2>>,
   enemy_pos |-> <<N - 1, N \div 2>>,
   my_walls |-> InitWalls,
   enemy_walls |-> InitWalls,
   h_walls |-> {},
   v_walls |-> {},
   turns |-> 0]

\* A mirrored wall row: n - 2 - x
FlipAnchorRow(w) == <<N - 2 - w[1], w[2]>>

\* get_canonical_form with the opponent's row not mirrored when the pawns are
\* exchanged.
get_canonical_form_RowKept(b, player) ==
  IF player = 1
  THEN b
  ELSE [my_pos |-> b.enemy_pos,
        enemy_pos |-> <<N - 1 - b.my_pos[1], b.my_pos[2]>>,
        my_walls |-> b.enemy_walls,
        enemy_walls |-> b.my_walls,
        h_walls |-> {FlipAnchorRow(w) : w \in b.h_walls},
        v_walls |-> {FlipAnchorRow(w) : w \in b.v_walls},
        turns |-> b.turns]

\* Board.get_canonical_form
get_canonical_form(b, player) ==
  IF player = 1
  THEN [my_pos |-> b.my_pos,
        enemy_pos |-> b.enemy_pos,
        my_walls |-> b.my_walls,
        enemy_walls |-> b.enemy_walls,
        h_walls |-> {<<w[1], w[2]>> : w \in b.h_walls},
        v_walls |-> {<<w[1], w[2]>> : w \in b.v_walls},
        turns |-> b.turns]
  ELSE [my_pos |-> <<N - 1 - b.enemy_pos[1], b.enemy_pos[2]>>,
        enemy_pos |-> <<N - 1 - b.my_pos[1], b.my_pos[2]>>,
        my_walls |-> b.enemy_walls,
        enemy_walls |-> b.my_walls,
        h_walls |-> {FlipAnchorRow(w) : w \in b.h_walls},
        v_walls |-> {FlipAnchorRow(w) : w \in b.v_walls},
        turns |-> b.turns]

\* get_flipped_form that mirrors a wall anchor as it mirrors a cell, by
\* n - 1 - y.
get_flipped_form_WallsAsCells(b) ==
  [my_pos |-> <<b.my_pos[1], N - 1 - b.my_pos[2]>>,
   enemy_pos |-> <<b.enemy_pos[1], N - 1 - b.enemy_pos[2]>>,
   my_walls |-> b.my_walls,
   enemy_walls |-> b.enemy_walls,
   h_walls |-> {<<w[1], N - 1 - w[2]>> : w \in b.h_walls},
   v_walls |-> {<<w[1], N - 1 - w[2]>> : w \in b.v_walls},
   turns |-> b.turns]

\* Board.get_flipped_form
get_flipped_form(b) ==
  [my_pos |-> <<b.my_pos[1], N - 1 - b.my_pos[2]>>,
   enemy_pos |-> <<b.enemy_pos[1], N - 1 - b.enemy_pos[2]>>,
   my_walls |-> b.my_walls,
   enemy_walls |-> b.enemy_walls,
   h_walls |-> {<<w[1], N - 2 - w[2]>> : w \in b.h_walls},
   v_walls |-> {<<w[1], N - 2 - w[2]>> : w \in b.v_walls},
   turns |-> b.turns]

\* execute_move without the increment of turns.
execute_move_NoTurn(b, move) == [b EXCEPT !.my_pos = move]

\* Board.execute_move
execute_move(b, move) ==
  [b EXCEPT !.my_pos = move, !.turns = b.turns + 1]

\* Board.place_wall
place_wall(b, pos, wall_type) ==
  [b EXCEPT !.h_walls = IF wall_type = 0 THEN b.h_walls \cup {pos} ELSE b.h_walls,
            !.v_walls = IF wall_type = 0 THEN b.v_walls ELSE b.v_walls \cup {pos},
            !.my_walls = b.my_walls - 1,
            !.turns = b.turns + 1]

\* Board.is_wall_between
is_wall_between(b, pos1, pos2) ==
  LET x1 == pos1[1]
      y1 == pos1[2]
      x2 == pos2[1]
      y2 == pos2[2]
  IN  IF x1 = x2
      THEN LET y == Min(y1, y2)
           IN  <<x1 - 1, y>> \in b.v_walls \/ <<x1, y>> \in b.v_walls
      ELSE IF y1 = y2
           THEN LET x == Min(x1, x2)
                IN  <<x, y1 - 1>> \in b.h_walls \/ <<x, y1>> \in b.h_walls
           ELSE FALSE

\* directions = [(-1, 0), (1, 0), (0, -1), (0, 1)]
directions == {<<-1, 0>>, <<1, 0>>, <<0, -1>>, <<0, 1>>}

\* The bounds filter at the end of get_legal_moves, also used by the jump test.
InBounds(p) == p[1] >= 0 /\ p[1] < N /\ p[2] >= 0 /\ p[2] < N

\* MovesInDirection with the step onto the opponent's cell treated as any
\* other step.
MovesInDirection_NoJump(b, move) ==
  LET pos == b.my_pos
      new_pos == <<pos[1] + move[1], pos[2] + move[2]>>
  IN  IF is_wall_between(b, pos, new_pos) THEN {} ELSE {new_pos}

\* MovesInDirection with the straight jump tested for the board's edge only,
\* not for a wall behind the opponent.
MovesInDirection_JumpOverWall(b, move) ==
  LET pos == b.my_pos
      new_pos == <<pos[1] + move[1], pos[2] + move[2]>>
      jump_pos == <<new_pos[1] + move[1], new_pos[2] + move[2]>>
      vertical_moves == IF move[1] = 0
                        THEN {<<-1, 0>>, <<1, 0>>}
                        ELSE {<<0, -1>>, <<0, 1>>}
  IN  IF is_wall_between(b, pos, new_pos)
      THEN {}
      ELSE IF new_pos = b.enemy_pos
           THEN IF ~InBounds(jump_pos)
                THEN {<<new_pos[1] + v[1], new_pos[2] + v[2]>> : v \in
                        {u \in vertical_moves :
                           ~is_wall_between(b, new_pos,
                                            <<new_pos[1] + u[1], new_pos[2] + u[2]>>)}}
                ELSE {jump_pos}
           ELSE {new_pos}

\* MovesInDirection without the jump and the side-steps: no cell for a
\* neighbour that holds the opponent.
MovesInDirection_OpponentBlocks(b, move) ==
  LET pos == b.my_pos
      new_pos == <<pos[1] + move[1], pos[2] + move[2]>>
  IN  IF is_wall_between(b, pos, new_pos)
      THEN {}
      ELSE IF new_pos = b.enemy_pos THEN {} ELSE {new_pos}

\* MovesInDirection with the step onto the opponent's cell in place of the
\* side-steps when the straight jump is not possible.
MovesInDirection_BlockedJumpLands(b, move) ==
  LET pos == b.my_pos
      new_pos == <<pos[1] + move[1], pos[2] + move[2]>>
      jump_pos == <<new_pos[1] + move[1], new_pos[2] + move[2]>>
  IN  IF is_wall_between(b, pos, new_pos)
      THEN {}
      ELSE IF new_pos = b.enemy_pos
           THEN IF is_wall_between(b, new_pos, jump_pos) \/ ~InBounds(jump_pos)
                THEN {new_pos}
                ELSE {jump_pos}
           ELSE {new_pos}

\* The body of the loop of Board.get_legal_moves for one direction: the
\* cells it appends to legal_moves.
MovesInDirection(b, move) ==
  LET pos == b.my_pos
      new_pos == <<pos[1] + move[1], pos[2] + move[2]>>
      jump_pos == <<new_pos[1] + move[1], new_pos[2] + move[2]>>
      vertical_moves == IF move[1] = 0
                        THEN {<<-1, 0>>, <<1, 0>>}
                        ELSE {<<0, -1>>, <<0, 1>>}
  IN  IF is_wall_between(b, pos, new_pos)
      THEN {}
      ELSE IF new_pos = b.enemy_pos
           THEN IF is_wall_between(b, new_pos, jump_pos) \/ ~InBounds(jump_pos)
                THEN {<<new_pos[1] + v[1], new_pos[2] + v[2]>> : v \in
                        {u \in vertical_moves :
                           ~is_wall_between(b, new_pos,
                                            <<new_pos[1] + u[1], new_pos[2] + u[2]>>)}}
                ELSE {jump_pos}
           ELSE {new_pos}

\* Board.get_legal_moves, as the set of the cells of the returned list
get_legal_moves(b) ==
  {p \in UNION {MovesInDirection(b, move) : move \in directions} : InBounds(p)}

\* The wall condition of the breadth-first search of get_distance_to_goal:
\* whether the step (dx, dy) from (x, y) is open.
StepOpen(x, y, dx, dy, h_walls, v_walls) ==
  \/ dx = -1 /\ <<x - 1, y - 1>> \notin h_walls /\ <<x - 1, y>> \notin h_walls
  \/ dx = 1 /\ <<x, y - 1>> \notin h_walls /\ <<x, y>> \notin h_walls
  \/ dy = -1 /\ <<x - 1, y - 1>> \notin v_walls /\ <<x, y - 1>> \notin v_walls
  \/ dy = 1 /\ <<x - 1, y>> \notin v_walls /\ <<x, y>> \notin v_walls

\* The for loop over directions of get_distance_to_goal for the popped cell
\* (x, y): the cells it appends to the queue.
Appended(x, y, visited, h_walls, v_walls) ==
  {<<x + d[1], y + d[2]>> : d \in
     {e \in directions :
        /\ 0 <= x + e[1] /\ x + e[1] < N /\ 0 <= y + e[2] /\ y + e[2] < N
        /\ <<x + e[1], y + e[2]>> \notin visited
        /\ StepOpen(x, y, e[1], e[2], h_walls, v_walls)}}

\* The while loop of get_distance_to_goal, one distance level of the queue at
\* a time: the queue holds the cells in order of distance, so the first cell
\* popped on the goal row is one of the nearest level that has one.
RECURSIVE BfsLevels(_, _, _, _, _, _)
BfsLevels(level, visited, distance, goal_row, h_walls, v_walls) ==
  IF level = {}
  THEN -1
  ELSE IF \E p \in level : p[1] = goal_row
       THEN distance
       ELSE LET next == {} \cup UNION {Appended(p[1], p[2], visited, h_walls, v_walls) :
                                         p \in level}
            IN  BfsLevels(next, visited \cup next, distance + 1, goal_row,
                          h_walls, v_walls)
\* (The union with {} makes TLC enumerate a level once, when it is built.)

\* Board.get_distance_to_goal(player, h_walls, v_walls)
get_distance_to_goal(b, player, h_walls, v_walls) ==
  LET goal_row == IF player = 1 THEN N - 1 ELSE 0
      start == IF player = 1 THEN b.my_pos ELSE b.enemy_pos
  IN  BfsLevels({start}, {start}, 0, goal_row, h_walls, v_walls)

\* WallCollides looking at the wall's own anchor only, not at the neighbouring
\* anchors along its length.
WallCollides_OwnAnchorOnly(b, pos, wall_type) ==
  pos \in b.h_walls \/ pos \in b.v_walls

\* The overlap and crossing test of Board.is_legal_wall (its second and third
\* if statements): TRUE when the wall collides with a placed wall.
WallCollides(b, pos, wall_type) ==
  IF wall_type = 0
  THEN \/ pos \in b.h_walls
       \/ <<pos[1], pos[2] - 1>> \in b.h_walls
       \/ <<pos[1], pos[2] + 1>> \in b.h_walls
       \/ pos \in b.v_walls
  ELSE IF wall_type = 1
       THEN \/ pos \in b.v_walls
            \/ <<pos[1] - 1, pos[2]>> \in b.v_walls
            \/ <<pos[1] + 1, pos[2]>> \in b.v_walls
            \/ pos \in b.h_walls
       ELSE FALSE

\* WallSeals without the search: every wall that collides with nothing passes.
WallSeals_NoSearch(b, pos, wall_type) == FALSE

\* WallSeals with the search run for the pawn my_pos alone.
WallSeals_MoverOnly(b, pos, wall_type) ==
  LET temp_h_walls == IF wall_type = 0 THEN b.h_walls \cup {pos} ELSE b.h_walls
      temp_v_walls == IF wall_type = 0 THEN b.v_walls ELSE b.v_walls \cup {pos}
  IN  get_distance_to_goal(b, 1, temp_h_walls, temp_v_walls) = -1

\* The path test of Board.is_legal_wall: TRUE when one pawn has no path left
\* once the wall is added.
WallSeals(b, pos, wall_type) ==
  LET temp_h_walls == IF wall_type = 0 THEN b.h_walls \cup {pos} ELSE b.h_walls
      temp_v_walls == IF wall_type = 0 THEN b.v_walls ELSE b.v_walls \cup {pos}
  IN  \/ get_distance_to_goal(b, 1, temp_h_walls, temp_v_walls) = -1
      \/ get_distance_to_goal(b, -1, temp_h_walls, temp_v_walls) = -1

\* Board.is_legal_wall
is_legal_wall(b, pos, wall_type) ==
  IF pos[1] < 0 \/ pos[1] >= N - 1 \/ pos[2] < 0 \/ pos[2] >= N - 1
  THEN FALSE
  ELSE IF WallCollides(b, pos, wall_type)
       THEN FALSE
       ELSE IF WallSeals(b, pos, wall_type)
            THEN FALSE
            ELSE TRUE

\* get_legal_walls that offers walls to a player who has none left.
get_legal_walls_NoBudgetTest(b) ==
  {<<i, j, "h">> : <<i, j>> \in {p \in Anchors : is_legal_wall(b, p, 0)}}
    \cup {<<i, j, "v">> : <<i, j>> \in {p \in Anchors : is_legal_wall(b, p, 1)}}

\* Board.get_legal_walls, as the set of the triples of the returned list
get_legal_walls(b) ==
  IF b.my_walls <= 0
  THEN {}
  ELSE {<<i, j, "h">> : <<i, j>> \in {a \in Anchors : is_legal_wall(b, a, 0)}}
       \cup {<<i, j, "v">> : <<i, j>> \in {a \in Anchors : is_legal_wall(b, a, 1)}}

(***************************************************************************)
(* Game (src/src/game.py)                                                  *)
(***************************************************************************)
\* Game.get_valid_actions: the index it sets for a legal move
MoveIdx(move) == move[1] * N + move[2]

\* WallIdx with the row stride n of the pawn cells.
WallIdx_CellStride(wall) ==
  LET wall_idx == N * N + wall[1] * N + wall[2]
  IN  IF wall[3] = "h" THEN wall_idx + 0 ELSE wall_idx + (N - 1) * (N - 1)

\* Game.get_valid_actions: the index it sets for a legal wall
WallIdx(wall) ==
  LET wall_idx == N * N + wall[1] * (N - 1) + wall[2]
  IN  IF wall[3] = "h" THEN wall_idx + 0 ELSE wall_idx + (N - 1) * (N - 1)

\* Game.get_valid_actions
get_valid_actions(b) ==
  LET moves == get_legal_moves(b)
      walls == get_legal_walls(b)
      set == {MoveIdx(move) : move \in moves} \cup {WallIdx(wall) : wall \in walls}
  IN  [a \in Actions |-> IF a \in set THEN 1 ELSE 0]

\* Game.get_next_state: the move an action id below n * n stands for
NextStateMove(action) == <<action \div N, action % N>>

\* Game.get_next_state: the wall type of an action id from n * n on
NextStateWallType(action) == (action - N * N) \div ((N - 1) * (N - 1))

\* Game.get_next_state: the wall anchor of an action id from n * n on
NextStateWallPos(action) ==
  LET wall_pos == (action - N * N) % ((N - 1) * (N - 1))
  IN  <<wall_pos \div (N - 1), wall_pos % (N - 1)>>

\* Game.get_next_state: the pair (board, player) it returns
get_next_state(b, player, action) ==
  LET canonical == get_canonical_form(b, player)
      acted == IF action < N * N
               THEN execute_move(canonical, NextStateMove(action))
               ELSE place_wall(canonical, NextStateWallPos(action),
                               NextStateWallType(action))
  IN  [board |-> get_canonical_form(acted, player), player |-> -player]

\* GUIQuoridor.decode_action
decode_action(idx) ==
  IF idx < N * N
  THEN <<"move", idx \div N, idx % N>>
  ELSE IF idx < N * N + (N - 1) * (N - 1)
       THEN <<"h_wall", (idx - N * N) \div (N - 1), (idx - N * N) % (N - 1)>>
       ELSE <<"v_wall",
              (idx - (N * N + (N - 1) * (N - 1))) \div (N - 1),
              (idx - (N * N + (N - 1) * (N - 1))) % (N - 1)>>

\* The call board.get_distance_to_goal(player=player) of Game.get_win_status
\* and of players.greedy_function: the search over the board's own walls.
DistanceToGoal(b, player) == get_distance_to_goal(b, player, b.h_walls, b.v_walls)

\* The results of get_win_status: None, a score num/den (den > 0), or the
\* ZeroDivisionError of the division by enemy_dist + my_dist.
NoStatus == [tag |-> "None", num |-> 0, den |-> 1]
Score(num, den) == [tag |-> "score", num |-> num, den |-> den]
DivisionError == [tag |-> "ZeroDivisionError", num |-> 0, den |-> 1]

\* get_win_status without the test of the turn limit.
get_win_status_NoTurnLimit(b, player) ==
  LET my_dist == DistanceToGoal(b, player)
      enemy_dist == DistanceToGoal(b, -player)
  IN  IF my_dist = 0
      THEN Score(1, 1)
      ELSE IF enemy_dist = 0
           THEN Score(-1, 1)
           ELSE NoStatus

\* get_win_status with the two distances exchanged in the numerator.
get_win_status_SignFlipped(b, player) ==
  LET my_dist == DistanceToGoal(b, player)
      enemy_dist == DistanceToGoal(b, -player)
  IN  IF b.turns = max_turn
      THEN IF enemy_dist + my_dist = 0
           THEN DivisionError
           ELSE Score((my_dist - enemy_dist) * CritNum, (enemy_dist + my_dist) * CritDen)
      ELSE IF my_dist = 0
           THEN Score(1, 1)
           ELSE IF enemy_dist = 0
                THEN Score(-1, 1)
                ELSE NoStatus

\* get_win_status without the test of the opponent's goal row.
get_win_status_OwnGoalOnly(b, player) ==
  LET my_dist == DistanceToGoal(b, player)
      enemy_dist == DistanceToGoal(b, -player)
  IN  IF b.turns = max_turn
      THEN IF enemy_dist + my_dist = 0
           THEN DivisionError
           ELSE Score((enemy_dist - my_dist) * CritNum, (enemy_dist + my_dist) * CritDen)
      ELSE IF my_dist = 0
           THEN Score(1, 1)
           ELSE NoStatus

\* Game.get_win_status
get_win_status(b, player) ==
  LET my_dist == DistanceToGoal(b, player)
      enemy_dist == DistanceToGoal(b, -player)
  IN  IF b.turns = max_turn
      THEN IF enemy_dist + my_dist = 0
           THEN DivisionError
           ELSE Score((enemy_dist - my_dist) * CritNum, (enemy_dist + my_dist) * CritDen)
      ELSE IF my_dist = 0
           THEN Score(1, 1)
           ELSE IF enemy_dist = 0
                THEN Score(-1, 1)
                ELSE NoStatus

(***************************************************************************)
(* Arena.play_game (src/src/arena.py): one game from the initial board.    *)
(* cur_player is the player to move, it the loop's iteration counter.      *)
(***************************************************************************)
\* Arena.play_game and the board transforms run without an MCTS object: its
\* fields are empty and stay so.
NoEngine ==
  /\ q_sa = <<>> /\ n_sa = <<>> /\ n_s = <<>>
  /\ p_s = <<>> /\ e_s = <<>> /\ v_s = <<>>
  /\ numMCTSSims = 0 /\ pi_v_function = "none"
  /\ stack = <<>> /\ ret = <<>> /\ pc = "none"
  /\ root = NewBoard /\ sims_run = 0 /\ temp = <<1, 1>> /\ probs = <<>>
  /\ tally = <<>>

Init ==
  /\ board = NewBoard
  /\ cur_player = 1
  /\ it = 0
  /\ NoEngine

\* The assignments of one iteration of the while loop with the action a
\* chosen by the player: get_next_state and the iteration counter.
PlayAction(a) ==
  LET next == get_next_state(board, cur_player, a)
  IN  /\ board' = next.board
      /\ cur_player' = next.player
      /\ it' = it + 1
      /\ UNCHANGED engine

\* One iteration in which the player chose a pawn move: the loop condition,
\* the validity assertion and the assignments.
PlayMove ==
  LET valids == get_valid_actions(get_canonical_form(board, cur_player))
  IN  /\ get_win_status(board, cur_player) = NoStatus
      /\ \E a \in 0 .. N * N - 1 : valids[a] > 0 /\ PlayAction(a)

\* One iteration in which the player chose a wall.
PlayWall ==
  LET valids == get_valid_actions(get_canonical_form(board, cur_player))
  IN  /\ get_win_status(board, cur_player) = NoStatus
      /\ \E a \in N * N .. get_action_size - 1 : valids[a] > 0 /\ PlayAction(a)

Next == PlayMove \/ PlayWall

Spec == Init /\ [][Next]_vars

(***************************************************************************)
(* Boards as inputs: a specification that starts from any well-formed      *)
(* board of at most MaxWallsAny walls and applies the two board            *)
(* transforms, for the claims about the board's pure functions.            *)
(***************************************************************************)
\* The walls <<anchor, type>> (type 0 horizontal, 1 vertical) of a set, split
\* as the board keeps them.
HWallsOf(ws) == {w[1] : w \in {u \in ws : u[2] = 0}}
VWallsOf(ws) == {w[1] : w \in {u \in ws : u[2] = 1}}

\* No two walls of the set overlap or cross.
Disjoint(h_walls, v_walls) ==
  /\ \A w \in h_walls : <<w[1], w[2] + 1>> \notin h_walls
  /\ \A w \in v_walls : <<w[1] + 1, w[2]>> \notin v_walls
  /\ h_walls \cap v_walls = {}

WallSetsAny ==
  {ws \in SUBSET (Anchors \X {0, 1}) :
     Cardinality(ws) <= MaxWallsAny /\ Disjoint(HWallsOf(ws), VWallsOf(ws))}

InitAny ==
  /\ cur_player = 1
  /\ it = 0
  /\ NoEngine
  /\ \E ws \in WallSetsAny : \E mp \in Cells : \E ep \in Cells \ {mp} :
       \E mw \in 0 .. InitWalls : \E ew \in 0 .. InitWalls :
          /\ board = [my_pos |-> mp, enemy_pos |-> ep, my_walls |-> mw,
                      enemy_walls |-> ew, h_walls |-> HWallsOf(ws),
                      v_walls |-> VWallsOf(ws), turns |-> 0]
          /\ get_distance_to_goal(board, 1, board.h_walls, board.v_walls) # -1
          /\ get_distance_to_goal(board, -1, board.h_walls, board.v_walls) # -1

\* The board is replaced by its view for the other player.
Canonicalize ==
  /\ board' = get_canonical_form(board, -1)
  /\ UNCHANGED <<cur_player, it, engine>>

\* The board is replaced by its left-right mirror.
Mirror ==
  /\ board' = get_flipped_form(board)
  /\ UNCHANGED <<cur_player, it, engine>>

NextAny == Canonicalize \/ Mirror

SpecAny == InitAny /\ [][NextAny]_vars

(***************************************************************************)
(* The geometry of walls, stated on the grid and not as the code tests it. *)
(***************************************************************************)
\* The pairs of neighbouring cells that a wall anchored at w lies between: a
\* horizontal wall lies under the cells (r, c) and (r, c+1), a vertical wall
\* right of the cells (r, c) and (r+1, c).
HSeparates(w) ==
  {{<<w[1], w[2]>>, <<w[1] + 1, w[2]>>}, {<<w[1], w[2] + 1>>, <<w[1] + 1, w[2] + 1>>}}
VSeparates(w) ==
  {{<<w[1], w[2]>>, <<w[1], w[2] + 1>>}, {<<w[1] + 1, w[2]>>, <<w[1] + 1, w[2] + 1>>}}
Separated(h_walls, v_walls) ==
  UNION {HSeparates(w) : w \in h_walls} \cup UNION {VSeparates(w) : w \in v_walls}

Neighbours(p, q) ==
  \/ p[1] = q[1] /\ (p[2] = q[2] + 1 \/ q[2] = p[2] + 1)
  \/ p[2] = q[2] /\ (p[1] = q[1] + 1 \/ q[1] = p[1] + 1)

\* The cells of the grid one step from a cell of S with no wall between.
Around(S, sep) ==
  {} \cup {q \in Cells : \E p \in S : Neighbours(p, q) /\ {p, q} \notin sep}

\* The cells that can be walked to from the cells of S.
RECURSIVE Region(_, _)
Region(S, sep) ==
  LET T == S \cup Around(S, sep)
  IN  IF T = S THEN S ELSE Region(T, sep)

\* A pawn at start can walk to the row goal_row.
HasPath(start, goal_row, h_walls, v_walls) ==
  \E q \in Region({start}, {} \cup Separated(h_walls, v_walls)) : q[1] = goal_row

\* The length of the shortest walk from the cells of S to the row goal_row,
\* counted from k, or -1 when there is none.
RECURSIVE WalkLength(_, _, _, _)
WalkLength(S, k, goal_row, sep) ==
  IF \E q \in S : q[1] = goal_row
  THEN k
  ELSE LET T == S \cup Around(S, sep)
       IN  IF T = S THEN -1 ELSE WalkLength(T, k + 1, goal_row, sep)

\* A wall of the given type at anchor a fits among the placed walls.
Fits(b, a, type) ==
  IF type = "h"
  THEN /\ a \notin b.v_walls
       /\ \A w \in b.h_walls : ~(w[1] = a[1] /\ w[2] \in {a[2] - 1, a[2], a[2] + 1})
  ELSE /\ a \notin b.h_walls
       /\ \A w \in b.v_walls : ~(w[2] = a[2] /\ w[1] \in {a[1] - 1, a[1], a[1] + 1})

\* With the wall added, both pawns can still walk to their goal rows.
LeavesPaths(b, a, type) ==
  LET h == IF type = "h" THEN b.h_walls \cup {a} ELSE b.h_walls
      v == IF type = "v" THEN b.v_walls \cup {a} ELSE b.v_walls
  IN  HasPath(b.my_pos, N - 1, h, v) /\ HasPath(b.enemy_pos, 0, h, v)

(***************************************************************************)
(* Claims.                                                                 *)
(***************************************************************************)
\* C1: in every board reachable by legal actions both pawns have a path to
\* their goal rows: get_distance_to_goal over the board's walls is never -1,
\* for the pawn my_pos (goal row n-1) and for the pawn enemy_pos (goal row 0).
C1_BothPawnsKeepAPath ==
  /\ get_distance_to_goal(board, 1, board.h_walls, board.v_walls) # -1
  /\ get_distance_to_goal(board, -1, board.h_walls, board.v_walls) # -1

\* A wall has been placed, and the player to move, who has a wall left, is
\* refused a wall that collides with nothing only because it would seal a pawn.
C1_Witness ==
  LET c == get_canonical_form(board, cur_player)
  IN  /\ board.h_walls \cup board.v_walls # {}
      /\ c.my_walls > 0
      /\ \E a \in Anchors : \E t \in {0, 1} :
            ~WallCollides(c, a, t) /\ ~is_legal_wall(c, a, t)

\* C2: get_legal_walls returns exactly this set: nothing when the mover's
\* budget is 0, and otherwise every anchor and type whose wall fits among the
\* placed walls and leaves both pawns a path to their goal rows.
C2_LegalWallsExact ==
  get_legal_walls(board) =
    IF board.my_walls = 0
    THEN {}
    ELSE {<<a[1], a[2], type>> : <<a, type>> \in
            {x \in Anchors \X {"h", "v"} :
               Fits(board, x[1], x[2]) /\ LeavesPaths(board, x[1], x[2])}}

\* The mover has a wall left and some wall that fits would leave the mover a
\* path but seal the opponent's last one; get_legal_walls leaves it out.
C2_Witness ==
  /\ board.my_walls > 0
  /\ \E a \in Anchors : \E type \in {"h", "v"} :
        LET h == IF type = "h" THEN board.h_walls \cup {a} ELSE board.h_walls
            v == IF type = "v" THEN board.v_walls \cup {a} ELSE board.v_walls
        IN  /\ Fits(board, a, type)
            /\ HasPath(board.my_pos, N - 1, h, v)
            /\ ~HasPath(board.enemy_pos, 0, h, v)
            /\ <<a[1], a[2], type>> \notin get_legal_walls(board)

\* C3: in every board reachable by legal actions no two horizontal walls are
\* anchored at (r,c) and (r,c+1), no two vertical walls at (r,c) and (r+1,c),
\* and no anchor holds both a horizontal and a vertical wall.
C3_WallsDoNotOverlap ==
  /\ \A w \in board.h_walls : <<w[1], w[2] + 1>> \notin board.h_walls
  /\ \A w \in board.v_walls : <<w[1] + 1, w[2]>> \notin board.v_walls
  /\ board.h_walls \cap board.v_walls = {}

\* Two walls are placed: the second was placed on a board whose first wall
\* ruled anchors out.
C3_Witness ==
  /\ Cardinality(board.h_walls) + Cardinality(board.v_walls) = 2
  /\ \E a \in Anchors : \E t \in {0, 1} :
        a \notin board.h_walls \cup board.v_walls /\ WallCollides(board, a, t)

\* The cell one step from p in direction d.
StepFrom(p, d) == <<p[1] + d[1], p[2] + d[2]>>

\* The cell q is on the board, next to p, with no wall between them.
OpenTo(b, p, q) ==
  q \in Cells /\ Neighbours(p, q) /\ {p, q} \notin Separated(b.h_walls, b.v_walls)

\* The moves the rules give the mover in direction d: the neighbour when it is
\* open and free; over an open neighbour that holds the opponent, the cell
\* behind it when that is open, and otherwise the open cells beside it.
RuleMoves(b, d) ==
  LET near == StepFrom(b.my_pos, d)
      far == StepFrom(near, d)
      sides == IF d[1] = 0 THEN {<<-1, 0>>, <<1, 0>>} ELSE {<<0, -1>>, <<0, 1>>}
  IN  IF ~OpenTo(b, b.my_pos, near)
      THEN {}
      ELSE IF near # b.enemy_pos
           THEN {near}
           ELSE IF OpenTo(b, near, far)
                THEN {far}
                ELSE {q \in {StepFrom(near, e) : e \in sides} : OpenTo(b, near, q)}

\* C4 (the general rule): get_legal_moves returns exactly the moves of the
\* rules: open free neighbours, straight jumps over the opponent, and
\* side-steps when the straight jump is blocked or off the board.
C4_MovesFollowRules ==
  get_legal_moves(board) = UNION {RuleMoves(board, d) : d \in directions}

\* The board is wall-free, the mover is on row 0 and the opponent is not next
\* to it.
OnRowZeroAlone(b) ==
  /\ b.h_walls = {} /\ b.v_walls = {}
  /\ b.my_pos[1] = 0
  /\ ~Neighbours(b.my_pos, b.enemy_pos)

\* C4 as stated: the general rule, and on a wall-free board with the mover on
\* row 0 and the opponent not adjacent exactly the three cells down, left and
\* right.
C4_AsStated ==
  /\ C4_MovesFollowRules
  /\ OnRowZeroAlone(board) =>
       /\ Cardinality(get_legal_moves(board)) = 3
       /\ get_legal_moves(board) =
            {StepFrom(board.my_pos, d) : d \in {<<1, 0>>, <<0, -1>>, <<0, 1>>}}

\* C4 as amended: the general rule, and on a wall-free board with the mover on
\* row 0, not in a corner, and the opponent not adjacent exactly the three
\* cells down, left and right.
C4_Amended ==
  /\ C4_MovesFollowRules
  /\ (OnRowZeroAlone(board) /\ board.my_pos[2] > 0 /\ board.my_pos[2] < N - 1) =>
       /\ Cardinality(get_legal_moves(board)) = 3
       /\ get_legal_moves(board) =
            {StepFrom(board.my_pos, d) : d \in {<<1, 0>>, <<0, -1>>, <<0, 1>>}}

\* The opponent stands on an open neighbour of the mover with a wall or the
\* edge behind it, and a side-step is among the legal moves.
C4_Witness ==
  \E d \in directions :
     LET near == StepFrom(board.my_pos, d)
     IN  /\ near = board.enemy_pos
         /\ OpenTo(board, board.my_pos, near)
         /\ ~OpenTo(board, near, StepFrom(near, d))
         /\ \E q \in get_legal_moves(board) :
               Neighbours(near, q) /\ q # board.my_pos

\* C5: when the pawns are on different cells, get_legal_moves holds neither
\* the mover's cell nor the opponent's cell.
C5_MovesAvoidBothPawns ==
  board.my_pos # board.enemy_pos =>
    /\ board.my_pos \notin get_legal_moves(board)
    /\ board.enemy_pos \notin get_legal_moves(board)

\* The opponent stands on an open neighbour of the mover, walls are placed,
\* and the mover has a legal move.
C5_Witness ==
  /\ board.my_pos # board.enemy_pos
  /\ OpenTo(board, board.my_pos, board.enemy_pos)
  /\ board.h_walls \cup board.v_walls # {}
  /\ get_legal_moves(board) # {}

\* The pawn of the given player stands on its goal row: row n-1 for the pawn
\* my_pos of player 1, row 0 for the pawn enemy_pos of player -1.
OnGoalRow(b, player) ==
  IF player = 1 THEN b.my_pos[1] = N - 1 ELSE b.enemy_pos[1] = 0

\* The status st is the number k.
IsNumber(st, k) == st.tag = "score" /\ st.num = k * st.den

\* C6: on every board reachable by legal play get_win_status(board, player)
\* is +1 when the given player's pawn is on its goal row and -1 when the
\* other player's pawn is, also when turns has reached the turn limit.
C6_GoalRowScoresOne ==
  \A player \in {1, -1} :
     /\ OnGoalRow(board, player) => IsNumber(get_win_status(board, player), 1)
     /\ OnGoalRow(board, -player) => IsNumber(get_win_status(board, player), -1)

\* C6 below the turn limit: there the goal row does score +1 and -1.
C6_GoalRowScoresOneBelowLimit ==
  board.turns < max_turn => C6_GoalRowScoresOne

\* The pawn of a player and its goal row.
PawnOf(b, player) == IF player = 1 THEN b.my_pos ELSE b.enemy_pos
GoalRowOf(player) == IF player = 1 THEN N - 1 ELSE 0

\* The length of the shortest walk of a player's pawn to its goal row.
WalkToGoal(b, player) ==
  WalkLength({PawnOf(b, player)}, 0, GoalRowOf(player),
             {} \cup Separated(b.h_walls, b.v_walls))

\* C7: on a reachable board with no pawn on its goal row, get_win_status is,
\* at the turn limit, the score 0.8 * (enemy_dist - my_dist) / (enemy_dist +
\* my_dist) of the two shortest walks, strictly between -0.8 and 0.8, and
\* below the turn limit None.
C7_TurnLimitScore ==
  \A player \in {1, -1} :
     (~OnGoalRow(board, 1) /\ ~OnGoalRow(board, -1)) =>
        LET st == get_win_status(board, player)
            my_dist == WalkToGoal(board, player)
            enemy_dist == WalkToGoal(board, -player)
        IN  /\ board.turns = max_turn =>
                 /\ st.tag = "score"
                 /\ st.den > 0
                 /\ st.num * 5 * (enemy_dist + my_dist) = 4 * (enemy_dist - my_dist) * st.den
                 /\ 5 * st.num < 4 * st.den
                 /\ 5 * st.num > -4 * st.den
            /\ board.turns < max_turn => st = NoStatus

\* The turn limit is reached with no pawn on its goal row and the two pawns
\* at different distances from their goal rows.
C7_Witness ==
  /\ board.turns = max_turn
  /\ ~OnGoalRow(board, 1) /\ ~OnGoalRow(board, -1)
  /\ get_win_status(board, 1).num # 0

\* C8: the turn counter counts the actions played, one per action, never
\* exceeds 2n^2, and a board with turns = 2n^2 has a status that is not None,
\* so that a play stops after at most 2n^2 actions.
C8_PlayStopsAtTurnLimit ==
  /\ board.turns = it
  /\ board.turns <= 2 * N * N
  /\ board.turns = 2 * N * N => get_win_status(board, cur_player) # NoStatus

\* A play has used all its 2n^2 actions, walls among them.
C8_Witness ==
  /\ it = 2 * N * N
  /\ board.h_walls # {} /\ board.v_walls # {}

\* The action decoded as get_next_state decodes it, in the form of
\* gui.decode_action.
NextStateDecoded(action) ==
  IF action < N * N
  THEN <<"move", NextStateMove(action)[1], NextStateMove(action)[2]>>
  ELSE <<IF NextStateWallType(action) = 0 THEN "h_wall" ELSE "v_wall",
         NextStateWallPos(action)[1], NextStateWallPos(action)[2]>>

\* The board of player 1's view after the player to move has done what the
\* mover's board c turned into.
BackFrom(c, player) == get_canonical_form(c, player)

\* C9: the action ids 0 .. n^2 + 2(n-1)^2 - 1 stand one to one for the pawn
\* cells (ids below n^2, row * n + col), the horizontal anchors (the next
\* (n-1)^2 ids) and the vertical anchors (the rest); get_next_state and
\* gui.decode_action decode an id to the move or wall that get_valid_actions
\* encodes as that id, and applying the id of a legal move or wall makes
\* exactly that move or places exactly that wall.
C9_ActionCodecRoundTrip ==
  /\ \A p \in Cells :
        /\ MoveIdx(p) \in 0 .. N * N - 1
        /\ decode_action(MoveIdx(p)) = <<"move", p[1], p[2]>>
  /\ \A a \in Anchors :
        /\ WallIdx(<<a[1], a[2], "h">>) \in N * N .. N * N + (N - 1) * (N - 1) - 1
        /\ WallIdx(<<a[1], a[2], "v">>) \in
              N * N + (N - 1) * (N - 1) .. N * N + 2 * (N - 1) * (N - 1) - 1
        /\ decode_action(WallIdx(<<a[1], a[2], "h">>)) = <<"h_wall", a[1], a[2]>>
        /\ decode_action(WallIdx(<<a[1], a[2], "v">>)) = <<"v_wall", a[1], a[2]>>
  /\ \A id \in Actions :
        /\ NextStateDecoded(id) = decode_action(id)
        /\ LET d == decode_action(id)
           IN  id = IF d[1] = "move"
                    THEN MoveIdx(<<d[2], d[3]>>)
                    ELSE WallIdx(<<d[2], d[3], IF d[1] = "h_wall" THEN "h" ELSE "v">>)
  /\ LET c == get_canonical_form(board, cur_player)
         valids == get_valid_actions(c)
     IN  /\ \A p \in Cells :
               valids[MoveIdx(p)] = 1 <=> p \in get_legal_moves(c)
         /\ \A p \in get_legal_moves(c) :
               get_next_state(board, cur_player, MoveIdx(p)).board =
                  BackFrom([c EXCEPT !.my_pos = p, !.turns = c.turns + 1], cur_player)
         /\ \A w \in Anchors \X {"h", "v"} :
               valids[WallIdx(<<w[1][1], w[1][2], w[2]>>)] = 1
                  <=> <<w[1][1], w[1][2], w[2]>> \in get_legal_walls(c)
         /\ \A w \in get_legal_walls(c) :
               get_next_state(board, cur_player, WallIdx(w)).board =
                  BackFrom([c EXCEPT
                              !.h_walls = IF w[3] = "h" THEN @ \cup {<<w[1], w[2]>>} ELSE @,
                              !.v_walls = IF w[3] = "v" THEN @ \cup {<<w[1], w[2]>>} ELSE @,
                              !.my_walls = @ - 1,
                              !.turns = @ + 1], cur_player)

\* Player -1 is to move and has a legal move, a legal horizontal wall and a
\* legal vertical wall.
C9_Witness ==
  LET c == get_canonical_form(board, cur_player)
  IN  /\ cur_player = -1
      /\ get_legal_moves(c) # {}
      /\ \E w \in get_legal_walls(c) : w[3] = "h"
      /\ \E w \in get_legal_walls(c) : w[3] = "v"

\* Two boards are structurally equal: the same pawn cells, wall budgets, wall
\* sets and turns.
SameBoard(b1, b2) ==
  /\ b1.my_pos = b2.my_pos /\ b1.enemy_pos = b2.enemy_pos
  /\ b1.my_walls = b2.my_walls /\ b1.enemy_walls = b2.enemy_walls
  /\ b1.h_walls = b2.h_walls /\ b1.v_walls = b2.v_walls
  /\ b1.turns = b2.turns

\* C10: get_canonical_form(1) returns a board structurally equal to the
\* board, and get_canonical_form(-1) applied to the result of
\* get_canonical_form(-1) returns a board structurally equal to the board.
C10_CanonicalFormInvolution ==
  /\ SameBoard(get_canonical_form(board, 1), board)
  /\ SameBoard(get_canonical_form(get_canonical_form(board, -1), -1), board)

\* The board has walls, unequal budgets and a view for player -1 that
\* differs from it in pawns, walls and budgets.
C10_Witness ==
  LET c == get_canonical_form(board, -1)
  IN  /\ board.h_walls # {} /\ board.v_walls # {}
      /\ board.my_walls # board.enemy_walls
      /\ c.my_pos # board.my_pos /\ c.h_walls # board.h_walls
      /\ c.v_walls # board.v_walls /\ c.my_walls # board.my_walls

(***************************************************************************)
(* Game.get_canonical_pi (src/src/game.py).  A policy vector is a function *)
(* on the action ids.                                                      *)
(***************************************************************************)
\* The source index of entry a after np.flip(pi_board, axis=0) of the first
\* n * n entries, reshaped to (n, n) and ravelled again.
FlippedBoardIdx(a) == (N - 1 - a \div N) * N + (a % N)

\* The index np.flip(pi_walls, axis=2) would read: the column is mirrored
\* and the row kept.
FlippedWallsIdx_ColumnAxis(a) ==
  LET w == a - N * N
      t == w \div ((N - 1) * (N - 1))
      r == (w % ((N - 1) * (N - 1))) \div (N - 1)
      c == (w % ((N - 1) * (N - 1))) % (N - 1)
  IN  N * N + t * (N - 1) * (N - 1) + r * (N - 1) + (N - 2 - c)

\* The source index of entry a after np.flip(pi_walls, axis=1) of the other
\* entries, reshaped to (2, n - 1, n - 1) and ravelled again.
FlippedWallsIdx(a) ==
  LET w == a - N * N
      t == w \div ((N - 1) * (N - 1))
      r == (w % ((N - 1) * (N - 1))) \div (N - 1)
      c == (w % ((N - 1) * (N - 1))) % (N - 1)
  IN  N * N + t * (N - 1) * (N - 1) + (N - 2 - r) * (N - 1) + c

get_canonical_pi(pi, player) ==
  IF player = -1
  THEN [a \in Actions |->
          IF a < N * N THEN pi[FlippedBoardIdx(a)] ELSE pi[FlippedWallsIdx(a)]]
  ELSE pi

(***************************************************************************)
(* Claims about the policy transform and the transition function.          *)
(***************************************************************************)
\* The policy vector with all its mass on the action a.
OneHot(a) == [x \in Actions |-> IF x = a THEN 1 ELSE 0]

\* The action id on which get_canonical_pi for the player puts the mass of a.
ImageOf(a, player) ==
  CHOOSE x \in Actions : get_canonical_pi(OneHot(a), player)[x] = 1

\* The cell of a move id and the anchor of a wall id, read row-major.
CellOf(a) == <<a \div N, a % N>>
AnchorOf(a) ==
  <<((a - N * N) % ((N - 1) * (N - 1))) \div (N - 1),
    ((a - N * N) % ((N - 1) * (N - 1))) % (N - 1)>>
IsHWallId(a) == a >= N * N /\ a < N * N + (N - 1) * (N - 1)
IsVWallId(a) == a >= N * N + (N - 1) * (N - 1)

\* The vector whose entry at a is a itself: its image shows where every
\* entry goes.
Labelled == [a \in Actions |-> a]

\* C11: for player -1 get_canonical_pi moves the probability of the move to
\* (r, c) to the move to (n-1-r, c) and of a wall at (r, c) to the wall of
\* the same type at (n-2-r, c); the board get_next_state(board, -1, a)
\* returns differs from the board at exactly the cell or anchor of the image
\* of a; the transform is the identity for player 1 and its own inverse for
\* player -1.
C11_CanonicalPiMatchesBoard ==
  /\ get_canonical_pi(Labelled, 1) = Labelled
  /\ get_canonical_pi(get_canonical_pi(Labelled, -1), -1) = Labelled
  /\ \A a \in Actions :
       LET img == ImageOf(a, -1)
       IN  /\ get_canonical_pi(OneHot(a), -1) = OneHot(img)
           /\ a < N * N =>
                img < N * N /\ CellOf(img) = <<N - 1 - CellOf(a)[1], CellOf(a)[2]>>
           /\ a >= N * N =>
                /\ IsHWallId(img) = IsHWallId(a)
                /\ IsVWallId(img) = IsVWallId(a)
                /\ AnchorOf(img) = <<N - 2 - AnchorOf(a)[1], AnchorOf(a)[2]>>
  /\ cur_player = -1 =>
       LET valids == get_valid_actions(get_canonical_form(board, -1))
       IN  \A a \in Actions : valids[a] > 0 =>
             LET next == get_next_state(board, -1, a).board
                 img == ImageOf(a, -1)
             IN  IF a < N * N
                 THEN /\ next.enemy_pos = CellOf(img)
                      /\ next.enemy_pos # board.enemy_pos
                      /\ next.my_pos = board.my_pos
                      /\ next.h_walls = board.h_walls
                      /\ next.v_walls = board.v_walls
                 ELSE /\ next.my_pos = board.my_pos
                      /\ next.enemy_pos = board.enemy_pos
                      /\ IsHWallId(a) =>
                           /\ next.h_walls \ board.h_walls = {AnchorOf(img)}
                           /\ board.h_walls \subseteq next.h_walls
                           /\ next.v_walls = board.v_walls
                      /\ IsVWallId(a) =>
                           /\ next.v_walls \ board.v_walls = {AnchorOf(img)}
                           /\ board.v_walls \subseteq next.v_walls
                           /\ next.h_walls = board.h_walls

\* Player -1 is to move and has, in its own view, a legal move and a legal
\* wall of each type whose images under the transform are other action ids.
C11_Witness ==
  /\ cur_player = -1
  /\ LET valids == get_valid_actions(get_canonical_form(board, -1))
     IN  /\ \E a \in 0 .. N * N - 1 : valids[a] > 0 /\ ImageOf(a, -1) # a
         /\ \E a \in Actions : IsHWallId(a) /\ valids[a] > 0 /\ ImageOf(a, -1) # a
         /\ \E a \in Actions : IsVWallId(a) /\ valids[a] > 0 /\ ImageOf(a, -1) # a

(***************************************************************************)
(* The Board objects of a call.  A Board object keeps its two wall sets as *)
(* references to set objects: `boards` holds the Board objects and `sets`  *)
(* the set objects, each in order of creation, and the fields h_walls and  *)
(* v_walls of a Board object are indices into `sets`.  Tuples and integers *)
(* are immutable and are kept as values.                                   *)
(***************************************************************************)
\* One Board object holding the board b, with its own two set objects.
HeapOf(b) ==
  [boards |-> <<[b EXCEPT !.h_walls = 1, !.v_walls = 2]>>,
   sets |-> <<b.h_walls, b.v_walls>>]

\* The fields of the Board object id, its wall sets read through.
Deref(heap, id) ==
  LET self == heap.boards[id]
  IN  [self EXCEPT !.h_walls = heap.sets[self.h_walls],
                   !.v_walls = heap.sets[self.v_walls]]

\* get_canonical_form that hands the caller's own set objects to the new
\* board for player 1.
ObjGetCanonicalForm_SharedSets(heap, id, player) ==
  LET self == heap.boards[id]
      form == get_canonical_form(Deref(heap, id), player)
      k == Len(heap.sets)
  IN  IF player = 1
      THEN [boards |-> Append(heap.boards, self), sets |-> heap.sets]
      ELSE [boards |-> Append(heap.boards,
                              [form EXCEPT !.h_walls = k + 1, !.v_walls = k + 2]),
            sets |-> heap.sets \o <<form.h_walls, form.v_walls>>]

\* Board.get_canonical_form: a new Board object whose wall sets are the two
\* new set objects built by set([...]).
ObjGetCanonicalForm(heap, id, player) ==
  LET form == get_canonical_form(Deref(heap, id), player)
      k == Len(heap.sets)
  IN  [boards |-> Append(heap.boards,
                         [form EXCEPT !.h_walls = k + 1, !.v_walls = k + 2]),
       sets |-> heap.sets \o <<form.h_walls, form.v_walls>>]

\* Board.execute_move: assigns two fields of the object.
ObjExecuteMove(heap, id, move) ==
  [heap EXCEPT !.boards[id].my_pos = move,
               !.boards[id].turns = heap.boards[id].turns + 1]

\* Board.place_wall: adds to the set object the field refers to and assigns
\* two fields of the object.
ObjPlaceWall(heap, id, pos, wall_type) ==
  LET self == heap.boards[id]
      ref == IF wall_type = 0 THEN self.h_walls ELSE self.v_walls
  IN  [heap EXCEPT !.sets[ref] = heap.sets[ref] \cup {pos},
                   !.boards[id].my_walls = self.my_walls - 1,
                   !.boards[id].turns = self.turns + 1]

\* Game.get_next_state on the Board object id; the returned board is the
\* last object created.
ObjGetNextState(heap, id, player, action) ==
  LET h1 == ObjGetCanonicalForm(heap, id, player)
      canonical == Len(h1.boards)
      h2 == IF action < N * N
            THEN ObjExecuteMove(h1, canonical, NextStateMove(action))
            ELSE ObjPlaceWall(h1, canonical, NextStateWallPos(action),
                              NextStateWallType(action))
  IN  ObjGetCanonicalForm(h2, canonical, player)

\* The pawn and the wall budget of a player on a board in the orientation
\* of player 1.
PawnOn(b, player) == IF player = 1 THEN b.my_pos ELSE b.enemy_pos
BudgetOn(b, player) == IF player = 1 THEN b.my_walls ELSE b.enemy_walls

\* C12: get_next_state returns a new board in the orientation of the input
\* with player -player and turns + 1; a move changes only the acting
\* player's pawn; a wall adds exactly one anchor to exactly one wall set and
\* takes 1 from the acting player's budget only; the other pawn and the
\* other budget are unchanged, and the input Board object is not modified.
C12_NextStateFrame ==
  LET valids == get_valid_actions(get_canonical_form(board, cur_player))
      heap == HeapOf(board)
  IN  \A a \in Actions : valids[a] > 0 =>
        LET next == get_next_state(board, cur_player, a)
            after == ObjGetNextState(heap, 1, cur_player, a)
            out == Len(after.boards)
        IN  /\ next.player = -cur_player
            /\ next.board.turns = board.turns + 1
            /\ PawnOn(next.board, -cur_player) = PawnOn(board, -cur_player)
            /\ BudgetOn(next.board, -cur_player) = BudgetOn(board, -cur_player)
            /\ IF a < N * N
               THEN /\ PawnOn(next.board, cur_player) # PawnOn(board, cur_player)
                    /\ BudgetOn(next.board, cur_player) = BudgetOn(board, cur_player)
                    /\ next.board.h_walls = board.h_walls
                    /\ next.board.v_walls = board.v_walls
               ELSE /\ PawnOn(next.board, cur_player) = PawnOn(board, cur_player)
                    /\ BudgetOn(next.board, cur_player) = BudgetOn(board, cur_player) - 1
                    /\ board.h_walls \subseteq next.board.h_walls
                    /\ board.v_walls \subseteq next.board.v_walls
                    /\ Cardinality(next.board.h_walls \ board.h_walls)
                         + Cardinality(next.board.v_walls \ board.v_walls) = 1
            /\ Deref(after, out) = next.board
            /\ out # 1
            /\ after.boards[out].h_walls \notin {1, 2}
            /\ after.boards[out].v_walls \notin {1, 2}
            /\ Deref(after, 1) = board

\* Player -1 is to move on a board with a wall on it and has both a
\* legal move and a legal wall.
C12_Witness ==
  LET valids == get_valid_actions(get_canonical_form(board, cur_player))
  IN  /\ cur_player = -1
      /\ board.h_walls # {}
      /\ \E a \in 0 .. N * N - 1 : valids[a] > 0
      /\ \E a \in N * N .. get_action_size - 1 : valids[a] > 0

\* C13: on every board reachable by legal play both wall budgets are
\* non-negative and my_walls + enemy_walls + |h_walls| + |v_walls| equals
\* 2 * floor(n * n / 8).
C13_WallsConserved ==
  /\ board.my_walls >= 0
  /\ board.enemy_walls >= 0
  /\ board.my_walls + board.enemy_walls
       + Cardinality(board.h_walls) + Cardinality(board.v_walls)
     = 2 * ((N * N) \div 8)

\* Both players have placed their walls: the budgets are at 0 and the walls
\* on the board are of both types.
C13_Witness ==
  /\ board.my_walls = 0 /\ board.enemy_walls = 0
  /\ board.h_walls # {} /\ board.v_walls # {}
  /\ board.turns > 2

(***************************************************************************)
(* Board.string_representation (src/src/board.py).  A string is a sequence *)
(* of one-character strings.                                               *)
(***************************************************************************)
RECURSIVE DecimalDigits(_)
\* The decimal digits of a natural number, most significant first.
DecimalDigits(k) ==
  LET digit == <<"0", "1", "2", "3", "4", "5", "6", "7", "8", "9">>[(k % 10) + 1]
  IN  IF k < 10 THEN <<digit>> ELSE Append(DecimalDigits(k \div 10), digit)

\* str(k) of an integer.
str(k) == IF k < 0 THEN <<"-">> \o DecimalDigits(-k) ELSE DecimalDigits(k)

\* f"({a},{b})"
FormatTuple(t) == <<"(">> \o str(t[1]) \o <<",">> \o str(t[2]) \o <<")">>

\* The key of sorted: x before y when (x[0], x[1]) < (y[0], y[1]).
KeyLess(x, y) == x[1] < y[1] \/ (x[1] = y[1] /\ x[2] < y[2])

RECURSIVE sorted(_)
\* sorted(tuple_set, key=...) of the tuples in the order the set yields them:
\* each tuple goes behind the tuples whose key is not greater.
sorted(seq) ==
  IF seq = <<>>
  THEN <<>>
  ELSE LET rest == sorted(Tail(seq))
           x == Head(seq)
           before == SelectSeq(rest, LAMBDA y : KeyLess(y, x))
           after == SelectSeq(rest, LAMBDA y : ~KeyLess(y, x))
       IN  before \o <<x>> \o after

RECURSIVE JoinTuples(_)
\* ",".join(f"({a},{b})" for a, b in tuples)
JoinTuples(tuples) ==
  IF tuples = <<>>
  THEN <<>>
  ELSE IF Len(tuples) = 1
       THEN FormatTuple(tuples[1])
       ELSE FormatTuple(tuples[1]) \o <<",">> \o JoinTuples(Tail(tuples))

\* The orders in which iterating over a set can yield its elements.
IterationOrders(S) ==
  {seq \in [1 .. Cardinality(S) -> S] : \A x \in S : \E i \in DOMAIN seq : seq[i] = x}

\* format_sorted_tuple_set of a set that yields its tuples in the order seq.
format_sorted_tuple_set(seq) == JoinTuples(sorted(seq))

\* The pieces of the string but for the turn counter.
StringPieces_NoTurns(b, h_order, v_order) ==
  FormatTuple(b.my_pos) \o <<":">> \o FormatTuple(b.enemy_pos) \o <<":">>
    \o format_sorted_tuple_set(h_order) \o <<":">>
    \o format_sorted_tuple_set(v_order) \o <<":">>
    \o str(b.my_walls) \o <<":">> \o str(b.enemy_walls)

\* The string string_representation builds when the two wall sets yield
\* their tuples in the orders h_order and v_order.
StringPieces(b, h_order, v_order) ==
  FormatTuple(b.my_pos) \o <<":">> \o FormatTuple(b.enemy_pos) \o <<":">>
    \o format_sorted_tuple_set(h_order) \o <<":">>
    \o format_sorted_tuple_set(v_order) \o <<":">>
    \o str(b.my_walls) \o <<":">> \o str(b.enemy_walls) \o <<":">>
    \o str(b.turns)

\* Board.string_representation
string_representation(b) ==
  StringPieces(b, CHOOSE seq \in IterationOrders(b.h_walls) : TRUE,
                  CHOOSE seq \in IterationOrders(b.v_walls) : TRUE)

(***************************************************************************)
(* Claims about the state key.                                             *)
(***************************************************************************)
\* Turn counters of one and of two digits.
OtherTurns == {0, 1, 10, 11}

\* A family of boards of at most one wall: every pair of pawn cells, every
\* pair of budgets and the turn counters above.
OtherBoards ==
  {[my_pos |-> mp, enemy_pos |-> ep, my_walls |-> mw, enemy_walls |-> ew,
    h_walls |-> HWallsOf(ws), v_walls |-> VWallsOf(ws), turns |-> t] :
     mp \in Cells, ep \in Cells, mw \in 0 .. InitWalls, ew \in 0 .. InitWalls,
     ws \in {x \in WallSetsAny : Cardinality(x) <= 1}, t \in OtherTurns}

\* The boards that differ from b in some of: the turn counter, the two
\* budgets, the pawns exchanged, the two wall sets exchanged, a wall taken
\* off.
VariantsOf(b) ==
  {[my_pos |-> IF swap THEN b.enemy_pos ELSE b.my_pos,
    enemy_pos |-> IF swap THEN b.my_pos ELSE b.enemy_pos,
    my_walls |-> mw, enemy_walls |-> ew,
    h_walls |-> (IF turn THEN b.v_walls ELSE b.h_walls) \ off,
    v_walls |-> (IF turn THEN b.h_walls ELSE b.v_walls) \ off,
    turns |-> t] :
     swap \in BOOLEAN, turn \in BOOLEAN, mw \in 0 .. InitWalls,
     ew \in 0 .. InitWalls, t \in OtherTurns,
     off \in {{}} \cup {{w} : w \in b.h_walls \cup b.v_walls}}

\* No two boards of the set have the same string.
NoCollision(boards) ==
  Cardinality({string_representation(b) : b \in boards}) = Cardinality(boards)

\* The family of boards of at most one wall has as many strings as boards.
OtherBoardsDoNotCollide == NoCollision(OtherBoards)

\* C14: two boards of the same size have the same string exactly when their
\* pawn cells, wall budgets, wall sets and turns are equal, and the string
\* does not depend on the order in which the wall sets yield their walls.
C14_StringIsAKey ==
  /\ NoCollision(VariantsOf(board) \cup {board})
  /\ OtherBoardsDoNotCollide
  /\ \A h_order \in IterationOrders(board.h_walls) :
       \A v_order \in IterationOrders(board.v_walls) :
         StringPieces(board, h_order, v_order) = string_representation(board)

\* The board has two walls of one type, which the set can yield in an order
\* that is not the sorted one, a wall of the other type and unequal budgets.
C14_Witness ==
  /\ Cardinality(board.h_walls) >= 2
  /\ board.v_walls # {}
  /\ board.my_walls # board.enemy_walls
  /\ \E h_order \in IterationOrders(board.h_walls) : sorted(h_order) # h_order

(***************************************************************************)
(* Numbers of the search (src/src/mcts.py).  A float is kept as the exact  *)
(* fraction <<num, den>> in lowest terms with den > 0; den = 0 stands for  *)
(* the values a division by zero gives in numpy: <<0, 0>> for nan and      *)
(* <<1, 0>>, <<-1, 0>> for inf and -inf.  Rounding is not modelled.        *)
(***************************************************************************)
Abs(x) == IF x < 0 THEN -x ELSE x
Sign(x) == IF x < 0 THEN -1 ELSE IF x > 0 THEN 1 ELSE 0

RECURSIVE GCD(_, _)
GCD(a, b) == IF b = 0 THEN a ELSE GCD(b, a % b)

Rat(num, den) ==
  IF den = 0
  THEN <<Sign(num), 0>>
  ELSE LET g == GCD(Abs(num), Abs(den))
       IN  <<(Sign(den) * num) \div g, Abs(den) \div g>>

NaN == <<0, 0>>
Zero == <<0, 1>>
One == <<1, 1>>
IsNaN(x) == x = NaN
IsFinite(x) == x[2] # 0

RNeg(x) == <<-x[1], x[2]>>

RAdd(x, y) ==
  IF IsFinite(x) /\ IsFinite(y)
  THEN Rat(x[1] * y[2] + y[1] * x[2], x[2] * y[2])
  ELSE IF IsNaN(x) \/ IsNaN(y)
       THEN NaN
       ELSE IF IsFinite(y) THEN x
            ELSE IF IsFinite(x) THEN y
                 ELSE IF x = y THEN x ELSE NaN

RMul(x, y) ==
  IF IsFinite(x) /\ IsFinite(y)
  THEN Rat(x[1] * y[1], x[2] * y[2])
  ELSE IF IsNaN(x) \/ IsNaN(y) \/ x[1] = 0 \/ y[1] = 0
       THEN NaN
       ELSE <<Sign(x[1]) * Sign(y[1]), 0>>

RDiv(x, y) ==
  IF IsFinite(x) /\ IsFinite(y)
  THEN Rat(x[1] * y[2], x[2] * y[1])
  ELSE IF IsNaN(x) \/ IsNaN(y) \/ ~IsFinite(y)
       THEN IF IsFinite(x) /\ ~IsNaN(y) THEN Zero ELSE NaN
       ELSE <<x[1] * (IF y[1] < 0 THEN -1 ELSE 1), 0>>

\* x > y; false when either is nan.
RGreater(x, y) ==
  /\ ~IsNaN(x) /\ ~IsNaN(y)
  /\ IF IsFinite(x) /\ IsFinite(y)
     THEN x[1] * y[2] > y[1] * x[2]
     ELSE IF IsFinite(x) THEN y[1] < 0
          ELSE IF IsFinite(y) THEN x[1] > 0
               ELSE x[1] > y[1]

RECURSIVE SumUpTo(_, _)
\* np.sum of the entries 0 .. k of a vector.
SumUpTo(vec, k) == IF k < 0 THEN Zero ELSE RAdd(SumUpTo(vec, k - 1), vec[k])

\* np.sum of a vector on the action ids.
RSum(vec) == SumUpTo(vec, get_action_size - 1)

\* The sign of a + b * sqrt(n) for finite fractions a, b and a natural n.
SurdSign(a, b, n) ==
  LET sa == Sign(a[1])
      sb == IF n = 0 THEN 0 ELSE Sign(b[1])
  IN  IF sb = 0 THEN sa
      ELSE IF sa = 0 \/ sa = sb THEN sb
           ELSE LET r == RDiv(a, b)
                    d == r[1] * r[1] - n * r[2] * r[2]
                IN  IF d > 0 THEN sa ELSE IF d < 0 THEN sb ELSE 0

(***************************************************************************)
(* The evaluators handed to MCTS as pi_v_function.  An evaluator returns a *)
(* policy vector on the action ids and a value; `raised` tells that it     *)
(* raised an exception instead.                                            *)
(***************************************************************************)
\* players.greedy_function: the score of the board after a valid action
greedy_score(b, action) ==
  LET next_board == get_next_state(b, 1, action).board
      my_distance == DistanceToGoal(next_board, 1)
      enemy_distance == DistanceToGoal(next_board, -1)
  IN  Rat(-(my_distance - enemy_distance), N * N)

\* players.greedy_function: equal probabilities on the valid actions of the
\* best score, and that score as the value; max() of an empty list raises.
greedy_function(b) ==
  LET valids == get_valid_actions(b)
      scored == {a \in Actions : valids[a] > 0}
      scores == [a \in scored |-> greedy_score(b, a)]
      best_actions == {a \in scored : \A x \in scored : ~RGreater(scores[x], scores[a])}
  IN  IF scored = {}
      THEN [pi |-> [a \in Actions |-> Zero], v |-> Zero, raised |-> TRUE]
      ELSE [pi |-> [a \in Actions |->
                      IF a \in best_actions
                      THEN Rat(1, Cardinality(best_actions)) ELSE Zero],
            v |-> scores[CHOOSE a \in best_actions : TRUE],
            raised |-> FALSE]

\* An evaluator that gives every action id the same probability and every
\* board the value 0.
uniform_function(b) ==
  [pi |-> [a \in Actions |-> Rat(1, get_action_size)], v |-> Zero, raised |-> FALSE]

\* An evaluator that puts all probability on action id 0, legal on some
\* boards only, and values every board at 1/2.
corner_function(b) ==
  [pi |-> [a \in Actions |-> IF a = 0 THEN One ELSE Zero], v |-> Rat(1, 2),
   raised |-> FALSE]

\* An evaluator whose policy entries are all -1: not a probability vector.
negative_function(b) ==
  [pi |-> [a \in Actions |-> <<-1, 1>>], v |-> Zero, raised |-> FALSE]

Evaluators == {"greedy", "uniform", "corner", "negative"}

\* The evaluators whose policy entries are never negative.
NonNegativeEvaluators == {"greedy", "uniform", "corner"}

\* self.pi_v_function(board)
ApplyPiV(kind, b) ==
  CASE kind = "greedy" -> greedy_function(b)
    [] kind = "uniform" -> uniform_function(b)
    [] kind = "corner" -> corner_function(b)
    [] kind = "negative" -> negative_function(b)

(***************************************************************************)
(* MCTS.search: the prior of a new leaf and the choice of an action.       *)
(***************************************************************************)
\* search, line 107: the policy times the valid actions.
Masked(pi, valids) == [a \in Actions |-> RMul(pi[a], Rat(valids[a], 1))]

\* search, lines 108-109: sum_p_s > 0
MaskedSumPositive(pi, valids) == RGreater(RSum(Masked(pi, valids)), Zero)

\* search, lines 107-116, without the branch for a masked sum that is not
\* positive.
Prior_NoFallback(pi, valids) ==
  LET masked == Masked(pi, valids)
      sum_p_s == RSum(masked)
  IN  [a \in Actions |-> RDiv(masked[a], sum_p_s)]

\* search, lines 107-116: the masked policy divided by its sum, or when the
\* sum is not positive the masked policy plus the valid actions, divided by
\* the sum of that.
Prior(pi, valids) ==
  LET masked == Masked(pi, valids)
      sum_p_s == RSum(masked)
      added == [a \in Actions |-> RAdd(masked[a], Rat(valids[a], 1))]
      sum_added == RSum(added)
  IN  IF RGreater(sum_p_s, Zero)
      THEN [a \in Actions |-> RDiv(masked[a], sum_p_s)]
      ELSE [a \in Actions |-> RDiv(added[a], sum_added)]

\* Board.display writes the pawns into an array of 2n - 1 rows and columns
\* at twice their coordinates; an index outside -(2n - 1) .. 2n - 2 raises
\* IndexError.
DisplayRaises(b) ==
  \E x \in {b.my_pos[1], b.my_pos[2], b.enemy_pos[1], b.enemy_pos[2]} :
    2 * x < -(2 * N - 1) \/ 2 * x > 2 * N - 2

\* args.cpuct
cpuct == Rat(1, 1)

\* An upper confidence bound a + b * sqrt(n_s[s]) + e * d, where d > 0 is
\* what EPS = 1e-8 adds under the square root: smaller than every
\* difference of two bounds that differ without it.  a is nan or infinite
\* when the bound is, and then b = e = 0.
Bound(a, b, e) == [a |-> a, b |-> b, e |-> e]

\* search, line 130: q_sa + cpuct * p_s[s][a] * sqrt(n_s[s]) / (1 + n_sa)
UcbVisited(q, p, ns, nsa) ==
  LET k == RDiv(RMul(cpuct, p), Rat(1 + nsa, 1))
  IN  IF IsFinite(k) /\ IsFinite(q)
      THEN Bound(q, k, Zero)
      ELSE Bound(RAdd(q, RMul(k, IF ns = 0 THEN Zero ELSE One)), Zero, Zero)

\* search, line 135: cpuct * p_s[s][a] * sqrt(n_s[s] + EPS)
UcbUnvisited(p, ns) ==
  LET k == RMul(cpuct, p)
  IN  IF IsFinite(k) THEN Bound(Zero, k, k) ELSE Bound(k, Zero, Zero)

\* -float("inf")
MinusInf == Bound(<<-1, 0>>, Zero, Zero)

\* u > cur_best at n_s[s] = ns.
UcbGreater(u, cur_best, ns) ==
  IF IsFinite(u.a) /\ IsFinite(cur_best.a)
  THEN LET sign == SurdSign(RAdd(u.a, RNeg(cur_best.a)),
                            RAdd(u.b, RNeg(cur_best.b)), ns)
       IN  sign > 0 \/ (sign = 0 /\ RGreater(u.e, cur_best.e))
  ELSE RGreater(u.a, cur_best.a)

(***************************************************************************)
(* MCTS (src/src/mcts.py) driven by one episode of self-play               *)
(* (execute_episode_worker of src/src/coach.py).  board, cur_player and it *)
(* are the episode's board, player and episode_step.  The dictionaries     *)
(* q_sa and n_sa are functions on pairs <<s, a>>, the other four on        *)
(* strings s.  The recursion of search is kept as the stack of its frames: *)
(* a frame holds the board and string of a call and the action it chose,   *)
(* NoAction until it has chosen one.  ret is the value the call that       *)
(* returned last handed to its caller.  pc is "idle" before a call of      *)
(* get_action_prob, "search" inside it, "returned" after it, "raised" when *)
(* an exception left it, "over" when the episode returned and "astray"     *)
(* when the episode has applied an action that is not valid.  tally        *)
(* counts, for the claims, what happened to the simulations of the call.   *)
(***************************************************************************)
\* The largest args.numMCTSSims an engine is created with.
MaxSims == 4

\* The number of calls of get_action_prob after which an episode is left.
MaxEpisodeSteps == 3

\* best_act = -1 and the value of a frame that has not chosen an action.
NoBestAct == -1
NoAction == -2

\* No return value.
None == <<>>

\* The temperatures get_action_prob is called with: 0, 1 and 1/2.
Temps == {Zero, One, Rat(1, 2)}

EmptyDict == [x \in {} |-> 0]

\* An assignment that keeps no other entry of the dictionary.
Put_Forgetting(d, k, v) == [x \in {k} |-> v]

\* d[k] = v
Put(d, k, v) == [x \in DOMAIN d \cup {k} |-> IF x = k THEN v ELSE d[x]]

Frame(b) == [board |-> b, s |-> string_representation(b), a |-> NoAction]

Top == stack[Len(stack)]

Pop == SubSeq(stack, 1, Len(stack) - 1)

\* The visit counts with 1, not 0, for an action that has no entry.
Counts_DefaultOne(b) ==
  LET s == string_representation(b)
  IN  [a \in Actions |-> IF <<s, a>> \in DOMAIN n_sa THEN n_sa[<<s, a>>] ELSE 1]

\* get_action_prob, lines 57-61: the visit counts of the actions of a board.
Counts(b) ==
  LET s == string_representation(b)
  IN  [a \in Actions |-> IF <<s, a>> \in DOMAIN n_sa THEN n_sa[<<s, a>>] ELSE 0]

RECURSIVE IntSumUpTo(_, _)
IntSumUpTo(vec, k) == IF k < 0 THEN 0 ELSE IntSumUpTo(vec, k - 1) + vec[k]

\* sum() of a vector of integers on the action ids.
IntSum(vec) == IntSumUpTo(vec, get_action_size - 1)

\* The value of a score of get_win_status as a fraction.
StatusValue(status) == Rat(status.num, status.den)

\* search, lines 97-98: the status of the board of a call, from e_s when
\* the string is cached there.
StatusOf(frame) ==
  IF frame.s \in DOMAIN e_s THEN e_s[frame.s] ELSE get_win_status(frame.board, 1)

\* search, lines 97-98: e_s after the call has looked the string up.
Cached(frame) ==
  IF frame.s \in DOMAIN e_s THEN e_s ELSE Put(e_s, frame.s, StatusOf(frame))

\* search, lines 129-136: the bound u of a valid action.
Ucb(s, a) ==
  IF <<s, a>> \in DOMAIN q_sa
  THEN UcbVisited(q_sa[<<s, a>>], p_s[s][a], n_s[s], n_sa[<<s, a>>])
  ELSE UcbUnvisited(p_s[s][a], n_s[s])

RECURSIVE SelectFrom_LastBest(_, _, _, _)
\* The loop with u >= cur_best: of equal bounds the last one wins.
SelectFrom_LastBest(s, a, cur_best, best_act) ==
  IF a >= get_action_size
  THEN best_act
  ELSE IF v_s[s][a] > 0 /\ ~UcbGreater(cur_best, Ucb(s, a), n_s[s])
       THEN SelectFrom_LastBest(s, a + 1, Ucb(s, a), a)
       ELSE SelectFrom_LastBest(s, a + 1, cur_best, best_act)

RECURSIVE SelectFrom(_, _, _, _)
\* search, lines 127-140: the loop over the action ids from a on, with the
\* best bound and action found so far.
SelectFrom(s, a, cur_best, best_act) ==
  IF a >= get_action_size
  THEN best_act
  ELSE IF v_s[s][a] > 0 /\ UcbGreater(Ucb(s, a), cur_best, n_s[s])
       THEN SelectFrom(s, a + 1, Ucb(s, a), a)
       ELSE SelectFrom(s, a + 1, cur_best, best_act)

\* search, lines 122-142: a = best_act
BestAct(s) == SelectFrom(s, 0, MinusInf, NoBestAct)

\* The simulation is in the call of search on the root.
AtRoot == Len(stack) = 1

\* MCTS.__init__ and the arguments it is given.
NewEngine(sims, kind) ==
  /\ q_sa = EmptyDict /\ n_sa = EmptyDict /\ n_s = EmptyDict
  /\ p_s = EmptyDict /\ e_s = EmptyDict /\ v_s = EmptyDict
  /\ numMCTSSims = sims
  /\ pi_v_function = kind
  /\ stack = <<>> /\ ret = None /\ pc = "idle"
  /\ root = NewBoard /\ sims_run = 0 /\ temp = One /\ probs = None
  /\ tally = [before |-> 0, terminal |-> 0, cached |-> 0, expanded |-> 0,
              evals |-> 0]

\* execute_episode_worker up to its loop.  The episode starts on the
\* initial board or, the pawns being back on their cells, two turns or one
\* turn before the turn limit; the first player moves at even turns.
InitMCTS ==
  /\ \E turns \in {0, max_turn - 2, max_turn - 1} :
       /\ board = [NewBoard EXCEPT !.turns = turns]
       /\ cur_player = IF turns % 2 = 0 THEN 1 ELSE -1
  /\ it = 0
  /\ \E sims \in 1 .. MaxSims : \E kind \in Evaluators : NewEngine(sims, kind)

\* The loop of execute_episode_worker calls get_action_prob on the
\* canonical board; a caller may also ask for the board the episode ended
\* on.
GetActionProb ==
  /\ pc \in {"idle", "over"}
  /\ it < MaxEpisodeSteps
  /\ \E t \in Temps : temp' = t
  /\ it' = it + 1
  /\ root' = get_canonical_form(board, cur_player)
  /\ sims_run' = 0
  /\ stack' = <<>>
  /\ ret' = None
  /\ probs' = None
  /\ pc' = "search"
  /\ tally' = [before |-> IntSum(Counts(root')), terminal |-> 0, cached |-> 0,
               expanded |-> 0, evals |-> 0]
  /\ UNCHANGED <<board, cur_player, q_sa, n_sa, n_s, p_s, e_s, v_s,
                 numMCTSSims, pi_v_function>>

\* get_action_prob, lines 54-55: the next self.search(board).
Simulate ==
  /\ pc = "search"
  /\ stack = <<>>
  /\ sims_run < numMCTSSims
  /\ sims_run' = sims_run + 1
  /\ stack' = <<Frame(root)>>
  /\ ret' = None
  /\ UNCHANGED <<board, cur_player, it, q_sa, n_sa, n_s, p_s, e_s, v_s,
                 numMCTSSims, pi_v_function, pc, root, temp, probs, tally>>

\* search on a board that is over, returning the status as it is.
SearchTerminal_NotNegated ==
  /\ pc = "search"
  /\ stack # <<>>
  /\ Top.a = NoAction
  /\ StatusOf(Top) # NoStatus
  /\ IF StatusOf(Top) = DivisionError
     THEN /\ pc' = "raised"
          /\ UNCHANGED <<e_s, stack, ret, tally>>
     ELSE /\ e_s' = Cached(Top)
          /\ stack' = Pop
          /\ ret' = StatusValue(StatusOf(Top))
          /\ tally' = IF AtRoot
                      THEN [tally EXCEPT
                              !.terminal = @ + 1,
                              !.cached = @ + (IF Top.s \in DOMAIN e_s THEN 1 ELSE 0)]
                      ELSE tally
          /\ pc' = pc
  /\ UNCHANGED <<board, cur_player, it, q_sa, n_sa, n_s, p_s, v_s,
                 numMCTSSims, pi_v_function, root, sims_run, temp, probs>>

\* search, lines 95-101, on a board whose status is not None: the call
\* returns the negated status.  The division in get_win_status may raise.
SearchTerminal ==
  /\ pc = "search"
  /\ stack # <<>>
  /\ Top.a = NoAction
  /\ StatusOf(Top) # NoStatus
  /\ IF StatusOf(Top) = DivisionError
     THEN /\ pc' = "raised"
          /\ UNCHANGED <<e_s, stack, ret, tally>>
     ELSE /\ e_s' = Cached(Top)
          /\ stack' = Pop
          /\ ret' = RNeg(StatusValue(StatusOf(Top)))
          /\ tally' = IF AtRoot
                      THEN [tally EXCEPT
                              !.terminal = @ + 1,
                              !.cached = @ + (IF Top.s \in DOMAIN e_s THEN 1 ELSE 0)]
                      ELSE tally
          /\ pc' = pc
  /\ UNCHANGED <<board, cur_player, it, q_sa, n_sa, n_s, p_s, v_s,
                 numMCTSSims, pi_v_function, root, sims_run, temp, probs>>

\* search, lines 95-120, on a board that is not over and has no prior: the
\* evaluator is called, the prior, the valid actions and the visit count 0
\* are stored, and the call returns the negated value.  The evaluator may
\* raise, and so may board.display() in the branch for a masked sum that
\* is not positive, after line 107 has stored the masked policy.
SearchExpand ==
  /\ pc = "search"
  /\ stack # <<>>
  /\ Top.a = NoAction
  /\ StatusOf(Top) = NoStatus
  /\ Top.s \notin DOMAIN p_s
  /\ e_s' = Cached(Top)
  /\ LET result == ApplyPiV(pi_v_function, Top.board)
         valids == get_valid_actions(Top.board)
     IN  IF result.raised
         THEN /\ pc' = "raised"
              /\ UNCHANGED <<p_s, v_s, n_s, stack, ret>>
         ELSE IF ~MaskedSumPositive(result.pi, valids) /\ DisplayRaises(Top.board)
              THEN /\ pc' = "raised"
                   /\ p_s' = Put(p_s, Top.s, Masked(result.pi, valids))
                   /\ UNCHANGED <<v_s, n_s, stack, ret>>
              ELSE /\ p_s' = Put(p_s, Top.s, Prior(result.pi, valids))
                   /\ v_s' = Put(v_s, Top.s, valids)
                   /\ n_s' = Put(n_s, Top.s, 0)
                   /\ stack' = Pop
                   /\ ret' = RNeg(result.v)
                   /\ pc' = pc
  /\ tally' = [tally EXCEPT !.evals = @ + 1,
                            !.expanded = @ + (IF AtRoot THEN 1 ELSE 0)]
  /\ UNCHANGED <<board, cur_player, it, q_sa, n_sa,
                 numMCTSSims, pi_v_function, root, sims_run, temp, probs>>

\* search, lines 95-146, on a board that is not over and has a prior: the
\* action of the best bound is applied, with no test on it, and search is
\* called on the canonical form of the next board.
SearchSelect ==
  /\ pc = "search"
  /\ stack # <<>>
  /\ Top.a = NoAction
  /\ StatusOf(Top) = NoStatus
  /\ Top.s \in DOMAIN p_s
  /\ e_s' = Cached(Top)
  /\ LET a == BestAct(Top.s)
         next == get_next_state(Top.board, 1, a)
         next_s == get_canonical_form(next.board, next.player)
     IN  stack' = Append([stack EXCEPT ![Len(stack)].a = a], Frame(next_s))
  /\ UNCHANGED <<board, cur_player, it, q_sa, n_sa, n_s, p_s, v_s, ret,
                 numMCTSSims, pi_v_function, pc, root, sims_run, temp, probs, tally>>

\* search after the recursive call, with the new value weighted like the
\* old mean: (Q + v) / 2.
SearchBackup_HalfWeight ==
  /\ pc = "search"
  /\ stack # <<>>
  /\ Top.a # NoAction
  /\ ret # None
  /\ LET s == Top.s
         a == Top.a
         v == ret
         edge == <<s, a>>
     IN  /\ IF edge \in DOMAIN q_sa
            THEN /\ q_sa' = [q_sa EXCEPT ![edge] =
                               RDiv(RAdd(q_sa[edge], v), Rat(2, 1))]
                 /\ n_sa' = [n_sa EXCEPT ![edge] = @ + 1]
            ELSE /\ q_sa' = Put(q_sa, edge, v)
                 /\ n_sa' = Put(n_sa, edge, 1)
         /\ n_s' = [n_s EXCEPT ![s] = @ + 1]
         /\ ret' = RNeg(v)
  /\ stack' = Pop
  /\ UNCHANGED <<board, cur_player, it, p_s, e_s, v_s,
                 numMCTSSims, pi_v_function, pc, root, sims_run, temp, probs, tally>>

\* search, lines 146-159: the call made for the chosen action has returned
\* v; the edge's mean value and visit count and the board's visit count
\* are updated and the call returns -v.
SearchBackup ==
  /\ pc = "search"
  /\ stack # <<>>
  /\ Top.a # NoAction
  /\ ret # None
  /\ LET s == Top.s
         a == Top.a
         v == ret
         edge == <<s, a>>
     IN  /\ IF edge \in DOMAIN q_sa
            THEN /\ q_sa' = [q_sa EXCEPT ![edge] =
                               RDiv(RAdd(RMul(Rat(n_sa[edge], 1), q_sa[edge]), v),
                                    Rat(n_sa[edge] + 1, 1))]
                 /\ n_sa' = [n_sa EXCEPT ![edge] = @ + 1]
            ELSE /\ q_sa' = Put(q_sa, edge, v)
                 /\ n_sa' = Put(n_sa, edge, 1)
         /\ n_s' = [n_s EXCEPT ![s] = @ + 1]
         /\ ret' = RNeg(v)
  /\ stack' = Pop
  /\ UNCHANGED <<board, cur_player, it, p_s, e_s, v_s,
                 numMCTSSims, pi_v_function, pc, root, sims_run, temp, probs, tally>>

\* All simulations of the call have been run.
SimulationsRun == pc = "search" /\ stack = <<>> /\ sims_run = numMCTSSims

RECURSIVE Power(_, _)
\* x ** k for a natural exponent k.
Power(x, k) == IF k = 0 THEN 1 ELSE x * Power(x, k - 1)

\* get_action_prob, line 69: x ** (1.0 / temp) for a temperature 1/k.
Tempered(x, t) == Power(x, t[2] \div t[1])

\* The actions that have been visited at all.
BestActions_Visited(counts) ==
  IF \A a \in Actions : counts[a] = 0
  THEN Actions
  ELSE {a \in Actions : counts[a] > 0}

\* get_action_prob, line 64: np.argwhere(counts == np.max(counts))
BestActions(counts) ==
  {a \in Actions : \A x \in Actions : counts[x] <= counts[a]}

\* get_action_prob, lines 63-67, temp = 0: probability 1 on an action drawn
\* from those of the largest visit count.
ReturnBest ==
  /\ SimulationsRun
  /\ temp = Zero
  /\ \E best_action \in BestActions(Counts(root)) :
       probs' = [a \in Actions |-> IF a = best_action THEN One ELSE Zero]
  /\ pc' = "returned"
  /\ UNCHANGED <<board, cur_player, it, q_sa, n_sa, n_s, p_s, e_s, v_s, stack,
                 ret, numMCTSSims, pi_v_function, root, sims_run, temp, tally>>

\* get_action_prob, lines 69-73, temp > 0: the tempered counts divided by
\* their sum.
ReturnProbs ==
  /\ SimulationsRun
  /\ temp # Zero
  /\ LET counts == [a \in Actions |-> Tempered(Counts(root)[a], temp)]
         counts_sum == IntSum(counts)
     IN  /\ counts_sum # 0
         /\ probs' = [a \in Actions |-> Rat(counts[a], counts_sum)]
  /\ pc' = "returned"
  /\ UNCHANGED <<board, cur_player, it, q_sa, n_sa, n_s, p_s, e_s, v_s, stack,
                 ret, numMCTSSims, pi_v_function, root, sims_run, temp, tally>>

\* get_action_prob, line 72, temp > 0 and all counts 0: x / counts_sum
\* raises ZeroDivisionError.
RaiseZeroDivision ==
  /\ SimulationsRun
  /\ temp # Zero
  /\ IntSum([a \in Actions |-> Tempered(Counts(root)[a], temp)]) = 0
  /\ pc' = "raised"
  /\ UNCHANGED <<board, cur_player, it, q_sa, n_sa, n_s, p_s, e_s, v_s, stack,
                 ret, numMCTSSims, pi_v_function, root, sims_run, temp, probs, tally>>

\* execute_episode_worker, lines 54-61: an action is drawn with the
\* probabilities probs and applied, with no test that it is valid; the
\* episode returns when the game is over.  An episode is followed up to the
\* first action that is not valid on its board: pc is then "astray".
EpisodeStep ==
  /\ pc = "returned"
  /\ get_win_status(board, cur_player) = NoStatus
  /\ \E action \in Actions :
       /\ RGreater(probs[action], Zero)
       /\ LET next == get_next_state(board, cur_player, action)
              r == get_win_status(next.board, next.player)
          IN  /\ board' = next.board
              /\ cur_player' = next.player
              /\ pc' = IF get_valid_actions(root)[action] = 0 THEN "astray"
                       ELSE IF r = NoStatus THEN "idle"
                       ELSE IF r = DivisionError THEN "raised" ELSE "over"
  /\ UNCHANGED <<it, q_sa, n_sa, n_s, p_s, e_s, v_s, stack, ret,
                 numMCTSSims, pi_v_function, root, sims_run, temp, probs, tally>>

NextMCTS ==
  \/ GetActionProb
  \/ Simulate
  \/ SearchTerminal
  \/ SearchExpand
  \/ SearchSelect
  \/ SearchBackup
  \/ ReturnBest
  \/ ReturnProbs
  \/ RaiseZeroDivision
  \/ EpisodeStep

SpecMCTS == InitMCTS /\ [][NextMCTS]_vars

(***************************************************************************)
(* Claims about the search.                                                *)
(***************************************************************************)
\* get_action_prob has returned a vector for the temperature t.
Returned == pc = "returned"

\* C15: with temp = 0 get_action_prob returns a vector with one entry 1 and
\* the others 0, the 1 on an action whose visit count at the root is the
\* largest; when one action alone has the largest count the vector is the
\* one-hot vector of that action.
C15_BestActionOneHot ==
  (Returned /\ temp = Zero) =>
    LET counts == Counts(root)
    IN  /\ \E best \in Actions :
             /\ probs = [a \in Actions |-> IF a = best THEN One ELSE Zero]
             /\ \A x \in Actions : counts[x] <= counts[best]
        /\ \A only \in Actions :
             (\A x \in Actions \ {only} : counts[x] < counts[only])
               => probs = [a \in Actions |-> IF a = only THEN One ELSE Zero]

\* The call returned with temp = 0 at a root where one action has been
\* visited more often than another visited one.
C15_Witness ==
  /\ Returned /\ temp = Zero
  /\ LET counts == Counts(root)
     IN  \E a \in Actions : \E b \in Actions :
           counts[a] > counts[b] /\ counts[b] > 0 /\ probs[a] = One

\* The counts of get_action_prob, line 69, raised to 1/temp.
TemperedCounts == [a \in Actions |-> Tempered(Counts(root)[a], temp)]

\* The vector that lines 69-73 of get_action_prob return has the tempered
\* counts divided by their sum, and its entries add up to 1.
C16_Normalised ==
  (Returned /\ temp # Zero) =>
    LET counts == TemperedCounts
        counts_sum == IntSum(counts)
    IN  /\ counts_sum > 0
        /\ probs = [a \in Actions |-> Rat(counts[a], counts_sum)]
        /\ RSum(probs) = One

\* C16: for every non-terminal root board and every numMCTSSims >= 1,
\* get_action_prob with temp > 0 returns the vector counts^(1/temp) divided
\* by its sum, a distribution over the actions that sums to 1: once the
\* simulations of such a call have been run, the sum it divides by is not 0,
\* and the vector it has returned is the normalised one.
C16_TemperedDistribution ==
  /\ (SimulationsRun /\ temp # Zero /\ get_win_status(root, 1) = NoStatus)
       => IntSum(TemperedCounts) # 0
  /\ C16_Normalised

\* The division of line 72 is by zero on a root that is not terminal only
\* in a call of one simulation that spends it on expanding the root.
C16_ZeroSumOnlyFreshRoot ==
  (SimulationsRun /\ temp # Zero /\ get_win_status(root, 1) = NoStatus
     /\ IntSum(TemperedCounts) = 0)
    => numMCTSSims = 1 /\ tally.expanded = 1

NoActionCount(b) ==
  LET edge == <<string_representation(b), NoBestAct>>
  IN  IF edge \in DOMAIN n_sa THEN n_sa[edge] ELSE 0

C17_WitnessNoAction == SimulationsRun /\ NoActionCount(root) > 0

C17_WitnessReusedRoot == SimulationsRun /\ tally.before > 0
C17_WitnessTerminalRoot == SimulationsRun /\ tally.terminal > tally.cached
C17_WitnessCachedRoot == SimulationsRun /\ tally.cached > 1

\* The innermost call of search is about to expand its board: the board is
\* not over and has no prior.  No other step is possible then.
Expanding ==
  /\ pc = "search"
  /\ stack # <<>>
  /\ Top.a = NoAction
  /\ StatusOf(Top) = NoStatus
  /\ Top.s \notin DOMAIN p_s

\* The uniform distribution over the valid actions.
UniformOver(valids) ==
  [a \in Actions |-> IF valids[a] = 0 THEN Zero ELSE Rat(1, IntSum(valids))]

\* C18: when search expands a board that is not over with an evaluator
\* policy of non-negative entries, it does not abort, and the prior it
\* stores for the board is zero on every action that is not valid, sums to
\* 1, and is the masked policy divided by its sum, or the uniform
\* distribution over the valid actions when the masked sum is zero.
C18_ExpansionPrior ==
  [][(/\ Expanding
      /\ pi_v_function \in NonNegativeEvaluators
      /\ ~ApplyPiV(pi_v_function, Top.board).raised)
     => LET s == Top.s
            valids == get_valid_actions(Top.board)
            masked == Masked(ApplyPiV(pi_v_function, Top.board).pi, valids)
            sum_p_s == RSum(masked)
        IN  /\ pc' = "search"
            /\ stack' = Pop
            /\ s \in DOMAIN p_s'
            /\ \A a \in Actions : valids[a] = 0 => p_s'[s][a] = Zero
            /\ RSum(p_s'[s]) = One
            /\ p_s'[s] = IF sum_p_s = Zero
                         THEN UniformOver(valids)
                         ELSE [a \in Actions |-> RDiv(masked[a], sum_p_s)]]_vars

\* A board has been expanded with the uniform prior, the policy having had
\* no mass on its valid actions, another with a policy that had mass on
\* them, and the search has gone on through the former.
C18_Witness ==
  /\ pi_v_function = "corner"
  /\ \E s \in DOMAIN p_s :
       /\ p_s[s] = UniformOver(v_s[s])
       /\ \E a \in Actions : <<s, a>> \in DOMAIN n_sa
  /\ \E s \in DOMAIN p_s : p_s[s][0] = One

\* The innermost call of search has just been entered on a board that is
\* over: its status, cached or computed, is a score.
AtTerminal ==
  /\ pc = "search"
  /\ stack # <<>>
  /\ Top.a = NoAction
  /\ StatusOf(Top) \notin {NoStatus, DivisionError}

\* C19: when search reaches a board whose status is not None it returns the
\* negated status of that board, without a call of the evaluator and with
\* no entry of p_s, v_s, n_s, q_sa or n_sa made, and none held, for the
\* board; and an entry of e_s, once made, keeps its value.
C19_TerminalReturn ==
  [][/\ AtTerminal =>
          LET status == get_win_status(Top.board, 1)
          IN  /\ StatusOf(Top) = status
              /\ ret' = Rat(-status.num, status.den)
              /\ stack' = Pop
              /\ pc' = "search"
              /\ tally'.evals = tally.evals
              /\ UNCHANGED <<p_s, v_s, n_s, q_sa, n_sa>>
              /\ Top.s \notin DOMAIN p_s \cup DOMAIN v_s \cup DOMAIN n_s
              /\ \A a \in Actions \cup {NoBestAct} :
                   <<Top.s, a>> \notin DOMAIN q_sa \cup DOMAIN n_sa
              /\ Top.s \in DOMAIN e_s' /\ e_s'[Top.s] = status
     /\ \A s \in DOMAIN e_s : s \in DOMAIN e_s' /\ e_s'[s] = e_s[s]]_vars

\* A call of search below the root has returned the negated score of a
\* board that is over to the call that chose the action leading to it;
\* the score is in e_s and the edge has been counted.
C19_Witness ==
  /\ pc = "search"
  /\ stack # <<>>
  /\ Top.a \in Actions
  /\ ret # None
  /\ LET next == get_next_state(Top.board, 1, Top.a)
         child == get_canonical_form(next.board, next.player)
         s == string_representation(child)
     IN  /\ s \in DOMAIN e_s
         /\ e_s[s] \notin {NoStatus, DivisionError}
         /\ e_s[s].num # 0
         /\ ret = Rat(-e_s[s].num, e_s[s].den)
         /\ <<Top.s, Top.a>> \in DOMAIN n_sa

\* The innermost call of search is about to choose an action: the board is
\* not over and has a prior.
Selecting ==
  /\ pc = "search"
  /\ stack # <<>>
  /\ Top.a = NoAction
  /\ StatusOf(Top) = NoStatus
  /\ Top.s \in DOMAIN p_s

\* The action that the selection step chooses is not valid on the board of
\* the call; the id -1 is what the loop leaves when it chooses none.
IllegalSelection ==
  LET a == BestAct(Top.s)
  IN  a = NoBestAct \/ get_valid_actions(Top.board)[a] = 0

\* C20: if the action chosen in the selection step of search is not legal on
\* the board of the call, the id -1 of a loop that chose nothing included,
\* the search aborts with an error: no call is made for a next board.
C20_IllegalSelectionAborts ==
  [][(Selecting /\ IllegalSelection) => (pc' = "raised" /\ stack' = stack)]_vars

\* The selection step has chosen the id -1 and search is running on the
\* board that get_next_state made of it.
C20_IllegalActionApplied ==
  /\ pc = "search"
  /\ Len(stack) >= 2
  /\ stack[Len(stack) - 1].a = NoBestAct

(***************************************************************************)
(* Game.get_next_state as a call of its own, on any well-formed board and  *)
(* with any integer near the range of the action ids as its action.  pc is *)
(* "returned" once the call has handed back its pair.                      *)
(***************************************************************************)
\* How far below 0 and above the last action id the ids of a call go.
MaxOff == 2

\* The integers that are not action ids.
MalformedIds ==
  (-MaxOff .. -1) \cup (get_action_size .. get_action_size + MaxOff - 1)

\* get_next_state(board, cur_player, action) returns: the code of
\* get_next_state, execute_move and place_wall has no test of the action and
\* no statement that raises for an integer.
NextStateReturns(action) ==
  LET next == get_next_state(board, cur_player, action)
  IN  /\ board' = next.board
      /\ cur_player' = next.player
      /\ it' = it + 1
      /\ pc' = "returned"
      /\ UNCHANGED <<q_sa, n_sa, n_s, p_s, e_s, v_s, numMCTSSims, pi_v_function,
                     stack, ret, root, sims_run, temp, probs, tally>>

\* One call of get_next_state for either player.
CallNextState ==
  /\ it = 0
  /\ \E action \in Actions \cup MalformedIds : NextStateReturns(action)

\* The caller passes the board to the other player first.
CallAsOther ==
  /\ it = 0
  /\ cur_player = 1
  /\ cur_player' = -1
  /\ UNCHANGED <<board, it, engine>>

NextCall == CallNextState \/ CallAsOther

SpecCall == InitAny /\ [][NextCall]_vars

\* The pawns of a board stand on cells and its walls on anchors.
OnGrid(b) ==
  /\ b.my_pos \in Cells /\ b.enemy_pos \in Cells
  /\ b.h_walls \subseteq Anchors /\ b.v_walls \subseteq Anchors

\* C21: get_next_state called with a malformed action id, negative or at
\* least n^2 + 2(n-1)^2, aborts with an error and produces no successor
\* board: no step is a call that returns for such an id.
C21_MalformedActionAborts ==
  [][\A action \in MalformedIds : ~NextStateReturns(action)]_vars

\* get_next_state never returns a board with a pawn off the grid or a wall
\* anchor outside [0, n-1) x [0, n-1).
C21_SuccessorOnGrid == pc = "returned" => OnGrid(board)

\* A call with an id past the last one has returned a board with one more
\* vertical wall.
C21_WallFromIdPastRange ==
  /\ pc = "returned"
  /\ OnGrid(board)
  /\ Cardinality(board.v_walls) = 1 /\ board.h_walls = {}
  /\ board.my_walls + board.enemy_walls < 0

\* The keys a step adds to a dictionary.
NewKeys(before, after) == DOMAIN after \ DOMAIN before

\* C22: in every step of an engine, over any sequence of simulations and of
\* calls of get_action_prob, the six dictionaries lose no entry; an entry is
\* added only for the board, or the edge, of the call of search that is
\* running, and only when it had none; N(s) and N(s,a) do not decrease; and
\* the prior and the valid actions stored for a board are not modified.
C22_StatisticsPersist ==
  [][/\ DOMAIN e_s \subseteq DOMAIN e_s' /\ DOMAIN p_s \subseteq DOMAIN p_s'
     /\ DOMAIN v_s \subseteq DOMAIN v_s' /\ DOMAIN n_s \subseteq DOMAIN n_s'
     /\ DOMAIN q_sa \subseteq DOMAIN q_sa' /\ DOMAIN n_sa \subseteq DOMAIN n_sa'
     /\ LET visited == IF stack = <<>> THEN {} ELSE {Top.s}
            passed == IF stack = <<>> THEN {} ELSE {<<Top.s, Top.a>>}
        IN  /\ NewKeys(e_s, e_s') \subseteq visited
            /\ NewKeys(p_s, p_s') \subseteq visited
            /\ NewKeys(v_s, v_s') \subseteq visited
            /\ NewKeys(n_s, n_s') \subseteq visited
            /\ NewKeys(q_sa, q_sa') \subseteq passed
            /\ NewKeys(n_sa, n_sa') \subseteq passed
     /\ \A s \in DOMAIN n_s : n_s'[s] >= n_s[s]
     /\ \A edge \in DOMAIN n_sa : n_sa'[edge] >= n_sa[edge]
     /\ \A s \in DOMAIN p_s : p_s'[s] = p_s[s]
     /\ \A s \in DOMAIN v_s : v_s'[s] = v_s[s]]_vars

\* An engine in its second call or later holds a board, with its prior,
\* that it has been through at least twice and an edge it has been through
\* at least twice.
C22_Witness ==
  /\ it >= 2
  /\ pc = "search"
  /\ \E s \in DOMAIN n_s : n_s[s] >= 2 /\ s \in DOMAIN p_s
  /\ \E edge \in DOMAIN n_sa : n_sa[edge] >= 2

\* The scores of the valid actions of s are numbers: no entry of the prior
\* of s is nan.
ScoresComparable(s) == \A a \in Actions : ~IsNaN(p_s[s][a])

\* In the order of the scores at s, x is above y.
Above(s, x, y) == UcbGreater(Ucb(s, x), Ucb(s, y), n_s[s])

\* The step of the call on top of the stack has chosen an action that is
\* valid on its board s and whose score, Q + cpuct * P * sqrt(N(s)) /
\* (1 + N(s,a)) for a visited edge and cpuct * P * sqrt(N(s) + eps) for an
\* unvisited one, no valid action exceeds, every valid action of a smaller
\* id having a strictly lower score; and it has called search for the next
\* board.
SelectedMaximal ==
  LET s == Top.s
      valids == get_valid_actions(Top.board)
      a == stack'[Len(stack)].a
  IN  /\ Len(stack') = Len(stack) + 1
      /\ a \in Actions
      /\ valids[a] = 1
      /\ \A x \in Actions : valids[x] = 1 => ~Above(s, x, a)
      /\ \A x \in 0 .. a - 1 : valids[x] = 1 => Above(s, a, x)

BackingUp ==
  /\ pc = "search"
  /\ stack # <<>>
  /\ Top.a # NoAction
  /\ ret # None

\* The fraction q is (n * old + v) / (n + 1), by cross-multiplication in
\* the integers.
IsRunningMean(q, n, old, v) ==
  /\ q[2] > 0
  /\ q[1] * (n + 1) * old[2] * v[2] = q[2] * (n * old[1] * v[2] + v[1] * old[2])

\* The fraction q lies in [-1, 1].
InUnitRange(q) == q[2] > 0 /\ -q[2] <= q[1] /\ q[1] <= q[2]

\* C24, the pass: a pass through an edge (s, a) raises N(s) and N(s,a) by
\* exactly 1, sets Q(s,a) to (N(s,a) * Q(s,a) + v) / (N(s,a) + 1) for the
\* value v that the call on the successor returned, the first v as it is,
\* returns -v and touches no other edge or board; and the call on a
\* successor that is expanded returns minus the evaluator's value of it.
C24_Pass ==
  /\ BackingUp =>
       LET s == Top.s
           edge == <<Top.s, Top.a>>
           v == ret
           n == IF edge \in DOMAIN n_sa THEN n_sa[edge] ELSE 0
           old == IF edge \in DOMAIN q_sa THEN q_sa[edge] ELSE Zero
       IN  /\ n_s'[s] = n_s[s] + 1
           /\ n_sa'[edge] = n + 1
           /\ IsRunningMean(q_sa'[edge], n, old, v)
           /\ ret' = <<-v[1], v[2]>>
           /\ stack' = Pop
           /\ \A x \in DOMAIN n_s \ {s} : n_s'[x] = n_s[x]
           /\ \A x \in DOMAIN n_sa \ {edge} :
                n_sa'[x] = n_sa[x] /\ q_sa'[x] = q_sa[x]
  /\ (Expanding /\ pc' = "search") =>
       LET v == ApplyPiV(pi_v_function, Top.board).v
       IN  ret' = <<-v[1], v[2]>>
  /\ ~BackingUp => UNCHANGED <<q_sa, n_sa, n_s>> \/ Expanding

\* C24: each pass through an edge is as C24_Pass says, so that Q(s,a) is
\* the mean of the N(s,a) values backed up through the edge; and Q(s,a)
\* lies in [-1, 1], the evaluator values and the terminal scores doing so.
C24_BackupMean ==
  [][/\ C24_Pass
     /\ \A edge \in DOMAIN q_sa' :
          /\ edge \in DOMAIN n_sa' /\ n_sa'[edge] >= 1
          /\ InUnitRange(q_sa'[edge])]_vars

\* An edge has been passed at least three times and its mean is a proper
\* fraction whose denominator the number of passes divides.
C24_Witness ==
  /\ pc = "search"
  /\ \E edge \in DOMAIN q_sa :
       /\ n_sa[edge] >= 3
       /\ q_sa[edge][2] > 1
       /\ q_sa[edge][2] % n_sa[edge] = 0

(***************************************************************************)
(* The first selection at a board: the loop of search, lines 122-140, on   *)
(* the prior that the expansion of the board stores, with N(s) = 0 and no  *)
(* edge visited.                                                           *)
(***************************************************************************)
RECURSIVE FreshSelectFrom(_, _, _, _, _)
\* search, lines 127-140, for n_s[s] = 0 and no (s, a) in q_sa.
FreshSelectFrom(prior, valids, a, cur_best, best_act) ==
  IF a >= get_action_size
  THEN best_act
  ELSE IF valids[a] > 0 /\ UcbGreater(UcbUnvisited(prior[a], 0), cur_best, 0)
       THEN FreshSelectFrom(prior, valids, a + 1, UcbUnvisited(prior[a], 0), a)
       ELSE FreshSelectFrom(prior, valids, a + 1, cur_best, best_act)

\* The prior that search stores for the board b of valid actions valids
\* with the evaluator kind.
FreshPrior(b, valids, kind) == Prior(ApplyPiV(kind, b).pi, valids)

\* best_act of the first selection at a board after its expansion.
FreshBestAct(prior, valids) ==
  FreshSelectFrom(prior, valids, 0, MinusInf, NoBestAct)

\* RandomPlayer.play: np.sum(valids), the divisor of line 42.
RandomPlayerDivisor(b) == IntSum(get_valid_actions(b))

\* The board of the player to move, as the players and search see it, when
\* the game is not over.
ToMove == get_canonical_form(board, cur_player)
NotOver == get_win_status(board, cur_player) = NoStatus

C25_PathGivesMove == get_legal_moves(board) # {}

\* Every action that the returned vector gives a probability other than 0
\* is valid on the root board.
SupportIsLegal ==
  LET valids == get_valid_actions(root)
  IN  \A a \in Actions : probs[a] # Zero => valids[a] = 1

\* C26: every action to which get_action_prob assigns a probability other
\* than 0 is legal on the root board, for every root board, every temp and
\* every numMCTSSims >= 1, on a new engine or one used before.
C26_SupportLegal == Returned => SupportIsLegal

\* When some simulation, of this call or an earlier one, has gone through an
\* action of the root, the actions of the returned vector are legal.
C26_SupportLegalWhenVisited ==
  (Returned /\ IntSum(Counts(root)) > 0) => SupportIsLegal

\* get_action_prob with temp = 0 has returned probability 1 for an action
\* that is not valid on the root board: the argmax that action_function
\* hands to Arena.play_game.
C26_IllegalArgmax ==
  /\ Returned
  /\ temp = Zero
  /\ \E a \in Actions : probs[a] = One /\ get_valid_actions(root)[a] = 0

\* C27: on every board reached by legal play from the initial board the two
\* pawns stand on different cells, after jumps and side-steps as after
\* plain steps.
C27_PawnsApart == board.my_pos # board.enemy_pos

\* The second player has placed its wall and made one pawn move, and that
\* move was diagonal: a side-step next to the first player's pawn, the
\* straight jump over it being closed by a wall.
C27_Witness ==
  /\ it = 4
  /\ board.enemy_walls = 0
  /\ Abs(board.enemy_pos[1] - NewBoard.enemy_pos[1]) = 1
  /\ Abs(board.enemy_pos[2] - NewBoard.enemy_pos[2]) = 1
  /\ board.my_pos # board.enemy_pos

\* The second player's first move has taken its pawn two rows up: a jump
\* over the first player's pawn.
C27_WitnessJump ==
  /\ it = 2
  /\ board.enemy_pos = <<NewBoard.enemy_pos[1] - 2, NewBoard.enemy_pos[2]>>
  /\ board.my_pos = <<NewBoard.enemy_pos[1] - 1, NewBoard.enemy_pos[2]>>

\* No call of search is running and none has been left by an exception.
PassesCompleted == stack = <<>> /\ pc # "raised"

\* N(s, a) over the action ids, 0 where there is no entry.
CountsAt(s) ==
  [a \in Actions |-> IF <<s, a>> \in DOMAIN n_sa THEN n_sa[<<s, a>>] ELSE 0]

\* Every expanded board s has N(s) equal to the sum over the actions of
\* N(s, a); q_sa and n_sa have the same keys, each of them a board that has
\* been expanded with an action that is valid on it, and a count of 1 or
\* more.
EdgeStatisticsConsistent ==
  /\ \A s \in DOMAIN n_s : n_s[s] = IntSum(CountsAt(s))
  /\ DOMAIN q_sa = DOMAIN n_sa
  /\ \A edge \in DOMAIN n_sa :
       /\ edge[1] \in DOMAIN v_s
       /\ edge[2] \in Actions
       /\ v_s[edge[1]][edge[2]] = 1
       /\ n_sa[edge] >= 1

\* C28: after any number of completed passes of search on one engine, every
\* expanded state s has N(s) = sum over a of N(s,a), and Q(s,a) and N(s,a)
\* exist for the same pairs, all with a legal in s and N(s,a) >= 1.
C28_EdgeStatistics == PassesCompleted => EdgeStatisticsConsistent

\* The same for the engines whose evaluator returns no negative entry.
C28_EdgeStatisticsNonNegative ==
  (PassesCompleted /\ pi_v_function \in NonNegativeEvaluators)
    => EdgeStatisticsConsistent

\* The passes of a call have completed and the engine holds an edge whose
\* action is the id -1.
C28_EdgeOfNoAction ==
  /\ PassesCompleted
  /\ SimulationsRun
  /\ \E edge \in DOMAIN n_sa : edge[2] = NoBestAct

\* The score of the other player in a zero-sum game.
Negated(status) == [status EXCEPT !.num = -status.num]

\* C29: on every board b reached by play, get_win_status(b, -1) is None
\* exactly when get_win_status(b, 1) is, and is otherwise its negation; and
\* get_win_status(b, p) is get_win_status(b.get_canonical_form(p), 1) for
\* both players p.
C29_ZeroSumAndOrientation ==
  LET first == get_win_status(board, 1)
      second == get_win_status(board, -1)
  IN  /\ (second = NoStatus) <=> (first = NoStatus)
      /\ first # NoStatus => second = Negated(first)
      /\ first # DivisionError
      /\ first = get_win_status(get_canonical_form(board, 1), 1)
      /\ second = get_win_status(get_canonical_form(board, -1), 1)

\* A game has reached the turn limit with the first player nearer to its
\* goal row than the second: the scores are 4/5 of the relative difference
\* of the distances, positive for the first player.
C29_Witness ==
  /\ board.turns = max_turn
  /\ get_win_status(board, 1).num > 0
  /\ get_win_status(board, -1).num < 0
  /\ DistanceToGoal(board, 1) > 0

\* A game has ended on the second player's goal row before the turn limit.
C29_WitnessGoal ==
  /\ board.turns < max_turn
  /\ get_win_status(board, 1) = Score(-1, 1)
  /\ get_win_status(board, -1) = Score(1, 1)

(***************************************************************************)
(* The left-right mirror of the training symmetries.                       *)
(***************************************************************************)
\* Game.get_symmetries: the source index of entry a after np.fliplr of the
\* first n * n entries, reshaped to (n, n) and ravelled again.
SymmetryBoardIdx(a) == (a \div N) * N + (N - 1 - (a % N))

\* Game.get_symmetries: the source index of entry a after
\* np.flip(pi_walls, axis=2) of the other entries, reshaped to
\* (2, n - 1, n - 1) and ravelled again.
SymmetryWallsIdx(a) ==
  LET w == a - N * N
      t == w \div ((N - 1) * (N - 1))
      r == (w % ((N - 1) * (N - 1))) \div (N - 1)
      c == (w % ((N - 1) * (N - 1))) % (N - 1)
  IN  N * N + t * (N - 1) * (N - 1) + r * (N - 1) + (N - 2 - c)

\* Game.get_symmetries: the list of the two pairs (board, pi) it returns.
get_symmetries(b, pi) ==
  LET board_lr == get_flipped_form(b)
      pi_lr == [a \in Actions |->
                  IF a < N * N THEN pi[SymmetryBoardIdx(a)]
                  ELSE pi[SymmetryWallsIdx(a)]]
  IN  <<(<<b, pi>>), (<<board_lr, pi_lr>>)>>

\* C30: the left-right mirror preserves legality. The legal-action vector
\* of get_flipped_form() of the board is the legal-action vector of the
\* board permuted as get_symmetries permutes a policy, which moves the entry
\* of the cell (r, c) to the cell (r, n - 1 - c) and the entry of the wall
\* anchor (r, c) of either type to the anchor (r, n - 2 - c) of that type;
\* flipping twice gives the board back, and the flipped board has the same
\* pawn in each role (its row kept), the same budgets and the same turns.
C30_MirrorPreservesLegality ==
  LET flipped == get_flipped_form(board)
      valids == get_valid_actions(board)
      mirrored == get_valid_actions(flipped)
      symmetries == get_symmetries(board, valids)
  IN  /\ symmetries[1] = <<board, valids>>
      /\ symmetries[2] = <<flipped, mirrored>>
      /\ \A move \in Cells :
           mirrored[MoveIdx(<<move[1], N - 1 - move[2]>>)] = valids[MoveIdx(move)]
      /\ \A wall \in Anchors : \A type \in {"h", "v"} :
           mirrored[WallIdx(<<wall[1], N - 2 - wall[2], type>>)]
             = valids[WallIdx(<<wall[1], wall[2], type>>)]
      /\ get_flipped_form(flipped) = board
      /\ flipped.my_pos = <<board.my_pos[1], N - 1 - board.my_pos[2]>>
      /\ flipped.enemy_pos = <<board.enemy_pos[1], N - 1 - board.enemy_pos[2]>>
      /\ flipped.my_walls = board.my_walls
      /\ flipped.enemy_walls = board.enemy_walls
      /\ flipped.turns = board.turns

\* A board with walls of both types on it whose legal actions are not their
\* own mirror image: a move, a legal wall and an illegal wall are all
\* carried to other ids by the mirror.
C30_Witness ==
  LET flipped == get_flipped_form(board)
      valids == get_valid_actions(board)
      mirrored == get_valid_actions(flipped)
  IN  /\ board.h_walls # {} /\ board.v_walls # {}
      /\ flipped # board
      /\ \E a \in Actions : a < N * N /\ valids[a] = 1 /\ mirrored[a] = 0
      /\ \E a \in Actions : a >= N * N /\ valids[a] = 1 /\ mirrored[a] = 0
      /\ \E a \in Actions : a >= N * N /\ valids[a] = 0 /\ mirrored[a] = 1

====
